---- MODULE Spec2Model ----
(***************************************************************************)
(* The real-time duplex voice session core of DeepSink-English (App.tsx    *)
(* and services/gemini.ts): the inbound message handler (transcript turn   *)
(* aggregation, tool dispatch, audio playback scheduling, barge-in), and   *)
(* the connect / disconnect lifecycle around it.                           *)
(*                                                                         *)
(* Text is a sequence of one-character strings, so that String.trim and    *)
(* concatenation are computed and not assumed.  Every JavaScript task or   *)
(* promise continuation is one action: a handler runs atomically up to its *)
(* next await, and other handlers may run while it is suspended.           *)
(***************************************************************************)
EXTENDS Integers, Sequences, FiniteSets, TLC

\* ------------------------------------------------------------------ bounds
MaxMsgs == 4
MaxClock == 2
MaxDur == 1
MaxConnects == 1
MaxAudioMsgs == 3
MaxToolMsgs == 2
MaxSessions == 2
MaxFrames == 2
MaxLifeMsgs == 2

\* ------------------------------------------------------- program constants
MinReportLen == 50
MaxHistory == 20
UserPrefixLen == 6
AgentPrefixLen == 10

SceneIds == {"COFFEE_SHOP", "NY_STREET", "BEACH", "PUB", "OFFICE", "GYM",
             "MARKET", "LIBRARY", "FUTURISTIC"}
PersonaIds == {"ROSS", "OLIVIA", "JAKE", "SINK"}

\* SCENES and PERSONAS are object literals: SCENES[id] also finds what every
\* object inherits from Object.prototype, and each of these is truthy
ObjectPrototypeKeys ==
    {"constructor", "toString", "toLocaleString", "valueOf", "hasOwnProperty",
     "isPrototypeOf", "propertyIsEnumerable", "__proto__"}

VARIABLES
    \* React state of App
    currentSceneId, currentPersonaId, isConnected, isMicOn, error,
    isAiSpeaking, messages, liveInput, liveOutput, savedSessions,
    isAnalyzing, showResult, scoreData,
    isUserSpeaking,     \* the voice-activity classification shown to the user
    \* refs of App
    inputCtx,           \* inputAudioContextRef.current is non-null
    stream,             \* streamRef.current is a live microphone stream
    processor,          \* processorRef.current and its onaudioprocess closure
    outputCtx,          \* outputAudioContextRef.current is non-null
    clock,              \* currentTime of the output AudioContext
    nextStartTime,      \* nextStartTimeRef.current
    sources,            \* sourcesRef.current
    transcriptLog, currentTurnInput, currentTurnOutput,
    \* GeminiService and the transport behind it
    session,            \* geminiService.session: 0 (null) or the number of
                        \* the connectLive call whose promise it holds
    transports,         \* one record per connectLive call, in call order
    toolResponses,      \* tool responses sent on the outbound stream
    audioSent,          \* audio frames sent on the outbound stream
    scorerCalls,        \* transcripts handed to generateReport
    reports,            \* what generateReport returned, in order
    \* suspended handlers
    inflight,           \* onMessage handlers waiting in await decodeAudioData
    disc,               \* the handleDisconnect call in progress
    \* bookkeeping of the run
    received,           \* inbound messages in arrival order
    schedule,           \* every source.start call in call order
    epoch,              \* resets of nextStartTimeRef so far
    enqueued,           \* audio chunks taken up since the last such reset
    seen,               \* latest clock time an enqueue read since the last
                        \* source.start or reset (0: none)
    sessionFrom,        \* Len(received) when the current session began
    connects,
    frames,             \* frame callbacks run so far
    volume,             \* the average bin magnitude the last checkVolume read
    \* the later version of App, whose stopAudio leaves its refs set
    later               \* isConnected, the audio refs, and the refs on which
                        \* the last stopAudio acted after their release

vars == <<currentSceneId, currentPersonaId, isConnected, isMicOn, error,
          isAiSpeaking, messages, liveInput, liveOutput, savedSessions,
          isAnalyzing, showResult, scoreData,
          inputCtx, stream, processor,
          outputCtx, clock, nextStartTime, sources,
          transcriptLog, currentTurnInput, currentTurnOutput,
          session, transports, toolResponses, audioSent, scorerCalls, reports,
          inflight, disc, received, schedule, epoch, enqueued, seen,
          sessionFrom, connects, frames, later, isUserSpeaking, volume>>

\* everything but the state of the later version
mainVars == <<currentSceneId, currentPersonaId, isConnected, isMicOn, error,
              isAiSpeaking, messages, liveInput, liveOutput, savedSessions,
              isAnalyzing, showResult, scoreData,
              inputCtx, stream, processor,
              outputCtx, clock, nextStartTime, sources,
              transcriptLog, currentTurnInput, currentTurnOutput,
              session, transports, toolResponses, audioSent, scorerCalls,
              reports, inflight, disc, received, schedule, epoch, enqueued,
              seen, sessionFrom, connects, frames>>

\* the capture pipeline: microphone, input context, frame callback
captureVars == <<inputCtx, stream, processor>>

\* the voice-activity display
vadVars == <<isUserSpeaking, volume>>

\* what the frame callback and the scorer have produced
outboundVars == <<audioSent, frames, reports>>

\* ------------------------------------------------------------------- text
Empty == <<>>

Max(a, b) == IF a >= b THEN a ELSE b

RECURSIVE TrimStart(_)
TrimStart(s) == IF s = Empty \/ Head(s) # " " THEN s ELSE TrimStart(Tail(s))

RECURSIVE TrimEnd(_)
TrimEnd(s) ==
    IF s = Empty \/ s[Len(s)] # " " THEN s ELSE TrimEnd(SubSeq(s, 1, Len(s) - 1))

\* String.prototype.trim
trim(s) == TrimEnd(TrimStart(s))

\* --------------------------------------------------------------- messages
NoAudio == [kind |-> "none", dur |-> 0]
Pcm(d) == [kind |-> "pcm", dur |-> d]

Msg(in, out, tc, calls, audio, intr) ==
    [input |-> in, output |-> out, turnComplete |-> tc, calls |-> calls,
     audio |-> audio, interrupted |-> intr]

UserFrag(t) == Msg(t, Empty, FALSE, <<>>, NoAudio, FALSE)
AgentFrag(t) == Msg(Empty, t, FALSE, <<>>, NoAudio, FALSE)
TurnCompleteMsg == Msg(Empty, Empty, TRUE, <<>>, NoAudio, FALSE)
InterruptedMsg == Msg(Empty, Empty, FALSE, <<>>, NoAudio, TRUE)
AudioMsg(d) == Msg(Empty, Empty, FALSE, <<>>, Pcm(d), FALSE)
AudioInterruptedMsg(d) == Msg(Empty, Empty, FALSE, <<>>, Pcm(d), TRUE)

\* an audio payload on which decode() throws, and one on which the promise of
\* decodeAudioData rejects
Malformed == [kind |-> "malformed", dur |-> 0]
Undecodable == [kind |-> "undecodable", dur |-> 0]
FaultyAudioMsg(audio, intr) == Msg(Empty, Empty, FALSE, <<>>, audio, intr)

\* one entry of message.toolCall.functionCalls
FunctionCall(name, arg, id) == [name |-> name, arg |-> arg, id |-> id]
ToolCallMsg(calls) == Msg(Empty, Empty, FALSE, calls, NoAudio, FALSE)

\* ------------------------------------------- the state a handler works on
Cur ==
    [messages |-> messages, liveInput |-> liveInput, liveOutput |-> liveOutput,
     currentTurnInput |-> currentTurnInput,
     currentTurnOutput |-> currentTurnOutput,
     transcriptLog |-> transcriptLog,
     currentSceneId |-> currentSceneId, currentPersonaId |-> currentPersonaId,
     toolResponses |-> toolResponses,
     nextStartTime |-> nextStartTime, sources |-> sources,
     isAiSpeaking |-> isAiSpeaking, schedule |-> schedule, epoch |-> epoch,
     enqueued |-> enqueued, seen |-> seen,
     session |-> session]       \* read by sendToolResponse, never written

Commit(s) ==
    /\ messages' = s.messages
    /\ liveInput' = s.liveInput
    /\ liveOutput' = s.liveOutput
    /\ currentTurnInput' = s.currentTurnInput
    /\ currentTurnOutput' = s.currentTurnOutput
    /\ transcriptLog' = s.transcriptLog
    /\ currentSceneId' = s.currentSceneId
    /\ currentPersonaId' = s.currentPersonaId
    /\ toolResponses' = s.toolResponses
    /\ nextStartTime' = s.nextStartTime
    /\ sources' = s.sources
    /\ isAiSpeaking' = s.isAiSpeaking
    /\ schedule' = s.schedule
    /\ epoch' = s.epoch
    /\ enqueued' = s.enqueued
    /\ seen' = s.seen

\* ------------------------------------------------------- turn aggregation
Turn(role, text) == [role |-> role, text |-> text]

\* mutant of flushUserTurn: records the turn and leaves the buffer as it was
flushUserTurnKeepsBuffer(s) ==
    LET text == trim(s.currentTurnInput)
    IN [s EXCEPT !.messages = IF text # Empty
                               THEN Append(@, Turn("user", text)) ELSE @,
                 !.liveInput = Empty]

\* mutant of flushUserTurn: puts the new turn in front of the recorded ones
flushUserTurnPrepends(s) ==
    LET text == trim(s.currentTurnInput)
    IN [s EXCEPT !.messages = IF text # Empty
                               THEN <<Turn("user", text)>> \o @ ELSE @,
                 !.currentTurnInput = Empty,
                 !.liveInput = Empty]

flushUserTurn(s) ==
    LET text == trim(s.currentTurnInput)
    IN [s EXCEPT !.messages = IF text # Empty
                               THEN Append(@, Turn("user", text)) ELSE @,
                 !.currentTurnInput = Empty,
                 !.liveInput = Empty]

\* mutant of flushAiTurn: commits the buffer as it stands, untrimmed and unguarded
flushAiTurnUntrimmed(s) ==
    [s EXCEPT !.messages = Append(@, Turn("model", s.currentTurnOutput)),
              !.currentTurnOutput = Empty,
              !.liveOutput = Empty]

flushAiTurn(s) ==
    LET text == trim(s.currentTurnOutput)
    IN [s EXCEPT !.messages = IF text # Empty
                               THEN Append(@, Turn("model", text)) ELSE @,
                 !.currentTurnOutput = Empty,
                 !.liveOutput = Empty]

LogLine(prefix, text) == [prefix |-> prefix, text |-> text]

\* mutant of HandleInputTranscription: the log line holds the trimmed text
HandleInputTranscriptionLogsTrimmed(s, text) ==
    IF text = Empty THEN s
    ELSE LET s1 == IF s.currentTurnOutput # Empty THEN flushAiTurn(s) ELSE s
             buf == s1.currentTurnInput \o text
         IN [s1 EXCEPT !.currentTurnInput = buf,
                       !.liveInput = buf,
                       !.transcriptLog = Append(@, LogLine("User", trim(text)))]

HandleInputTranscription(s, text) ==
    IF text = Empty THEN s
    ELSE LET s1 == IF s.currentTurnOutput # Empty THEN flushAiTurn(s) ELSE s
             buf == s1.currentTurnInput \o text
         IN [s1 EXCEPT !.currentTurnInput = buf,
                       !.liveInput = buf,
                       !.transcriptLog = Append(@, LogLine("User", text))]

\* mutant of HandleOutputTranscription: no implicit flush of the user's turn
HandleOutputTranscriptionNoFlush(s, text) ==
    IF text = Empty THEN s
    ELSE LET buf == s.currentTurnOutput \o text
         IN [s EXCEPT !.currentTurnOutput = buf,
                      !.liveOutput = buf,
                      !.transcriptLog = Append(@, LogLine("DeepSink", text))]

HandleOutputTranscription(s, text) ==
    IF text = Empty THEN s
    ELSE LET s1 == IF s.currentTurnInput # Empty THEN flushUserTurn(s) ELSE s
             buf == s1.currentTurnOutput \o text
         IN [s1 EXCEPT !.currentTurnOutput = buf,
                       !.liveOutput = buf,
                       !.transcriptLog = Append(@, LogLine("DeepSink", text))]

\* mutant of HandleTurnComplete: the end of a turn also restores the persona
HandleTurnCompleteResetsPersona(s, flag) ==
    IF flag
    THEN [flushAiTurn(flushUserTurn(s)) EXCEPT !.currentPersonaId = "SINK"]
    ELSE s

\* mutant of HandleTurnComplete: flushes the user's buffer only
HandleTurnCompleteUserOnly(s, flag) ==
    IF flag THEN flushUserTurn(s) ELSE s

HandleTurnComplete(s, flag) ==
    IF flag THEN flushAiTurn(flushUserTurn(s)) ELSE s

\* mutant of HandleTranscription: turn-complete is handled before the fragments
HandleTranscriptionTurnCompleteFirst(s, m) ==
    HandleOutputTranscription(
        HandleInputTranscription(HandleTurnComplete(s, m.turnComplete),
                                 m.input),
        m.output)

HandleTranscription(s, m) ==
    HandleTurnComplete(
        HandleOutputTranscription(
            HandleInputTranscription(s, m.input), m.output),
        m.turnComplete)

\* ---------------------------------------------------------- tool dispatch
\* if (SCENES[id]): a property lookup on the registry object, own or inherited
Truthy(registry, id) == id \in registry \cup ObjectPrototypeKeys

\* GeminiService.sendToolResponse: sends through this.session when it is set
sendToolResponse(s, id) ==
    IF s.session # 0 THEN [s EXCEPT !.toolResponses = Append(@, id)] ELSE s

\* mutant of HandleFunctionCall: a persona change is applied but not acknowledged
HandleFunctionCallSilentPersona(s, fc) ==
    IF fc.name = "changeScene" THEN
        IF Truthy(SceneIds, fc.arg)
        THEN sendToolResponse([s EXCEPT !.currentSceneId = fc.arg], fc.id)
        ELSE s
    ELSE IF fc.name = "changePersona" THEN
        IF Truthy(PersonaIds, fc.arg)
        THEN [s EXCEPT !.currentPersonaId = fc.arg]
        ELSE s
    ELSE s

HandleFunctionCall(s, fc) ==
    IF fc.name = "changeScene" THEN
        IF Truthy(SceneIds, fc.arg)
        THEN sendToolResponse([s EXCEPT !.currentSceneId = fc.arg], fc.id)
        ELSE s
    ELSE IF fc.name = "changePersona" THEN
        IF Truthy(PersonaIds, fc.arg)
        THEN sendToolResponse([s EXCEPT !.currentPersonaId = fc.arg], fc.id)
        ELSE s
    ELSE s

RECURSIVE HandleToolCall(_, _)
HandleToolCall(s, calls) ==
    IF calls = <<>> THEN s
    ELSE HandleToolCall(HandleFunctionCall(s, Head(calls)), Tail(calls))

\* ---------------------------------------------------- playback scheduling
\* nextStartTimeRef.current = Math.max(nextStartTimeRef.current, ctx.currentTime)
\* mutant of AdvanceCursor: takes the clock time without the max
AdvanceCursorToNow(s, now) ==
    [s EXCEPT !.nextStartTime = now, !.enqueued = @ + 1, !.seen = Max(@, now)]

AdvanceCursor(s, now) ==
    [s EXCEPT !.nextStartTime = Max(@, now), !.enqueued = @ + 1,
              !.seen = Max(@, now)]

\* the record of one source.start call: the source's id (its message's
\* number), the start time passed, the buffer's duration, the clock at the
\* call, and what the run knows of the handler that made it
Source(s, h, now) ==
    [id |-> h.id, when |-> s.nextStartTime, dur |-> h.audio.dur, at |-> now,
     epoch |-> s.epoch, begun |-> h.epoch, now |-> h.now, first |-> h.first,
     seen |-> s.seen]

\* mutant of StartSource: starts the source and leaves the cursor where it was
StartSourceNoAdvance(s, h, now) ==
    [s EXCEPT !.sources = @ \cup {Source(s, h, now)},
              !.isAiSpeaking = TRUE,
              !.schedule = Append(@, Source(s, h, now)),
              !.seen = 0]

\* source.start(nextStartTimeRef.current); cursor += duration; live set add
StartSource(s, h, now) ==
    [s EXCEPT !.nextStartTime = @ + h.audio.dur,
              !.sources = @ \cup {Source(s, h, now)},
              !.isAiSpeaking = TRUE,
              !.schedule = Append(@, Source(s, h, now)),
              !.seen = 0]

\* mutant of HandleInterruption: flushes the user's pending text as well
HandleInterruptionFlushesUser(s, flag) ==
    IF flag
    THEN LET s1 == [s EXCEPT !.sources = {},
                             !.nextStartTime = 0,
                             !.isAiSpeaking = FALSE,
                             !.epoch = @ + 1,
                             !.enqueued = 0,
                             !.seen = 0]
         IN flushUserTurn(IF s1.currentTurnOutput # Empty
                          THEN flushAiTurn(s1) ELSE s1)
    ELSE s

\* mutant of HandleInterruption: stops the sources, flushes the agent's text,
\* but leaves the stopped sources in the live set
HandleInterruptionKeepsSources(s, flag) ==
    IF flag
    THEN LET s1 == [s EXCEPT !.nextStartTime = 0,
                             !.isAiSpeaking = FALSE,
                             !.epoch = @ + 1,
                             !.enqueued = 0,
                             !.seen = 0]
         IN IF s1.currentTurnOutput # Empty THEN flushAiTurn(s1) ELSE s1
    ELSE s

HandleInterruption(s, flag) ==
    IF flag
    THEN LET s1 == [s EXCEPT !.sources = {},
                             !.nextStartTime = 0,
                             !.isAiSpeaking = FALSE,
                             !.epoch = @ + 1,
                             !.enqueued = 0,
                             !.seen = 0]
         IN IF s1.currentTurnOutput # Empty THEN flushAiTurn(s1) ELSE s1
    ELSE s

\* AudioBufferSourceNode.start(when): a time already past starts at once
PlayFrom(src) == Max(src.when, src.at)
PlayEnd(src) == PlayFrom(src) + src.dur

\* ------------------------------------------------------------ teardown
\* stopAudio: the part that acts on the playback state
stopAudio(s) == [s EXCEPT !.sources = {}, !.isAiSpeaking = FALSE]

\* processorRef.current: null, or the script processor with the isMicOn its
\* onaudioprocess closure holds
NoProcessor == [attached |-> FALSE, isMicOn |-> FALSE]
Processor(micOn) == [attached |-> TRUE, isMicOn |-> micOn]

\* stopAudio: the part that acts on the capture refs (frame callback
\* disconnected, microphone tracks stopped)
StopCapture ==
    /\ processor' = NoProcessor
    /\ stream' = FALSE

\* the audio refs of the later version: "null", or the resource the ref holds,
\* "live" or "released" (disconnected, stopped or closed)
RefNames ==
    {"processorRef", "sourceRef", "analyserRef", "streamRef",
     "inputAudioContextRef", "outputAudioContextRef"}

\* stopAudio of the later version: each ref that is set is disconnected,
\* stopped or closed, and stays set
stopAudioLater(refs) ==
    [r \in RefNames |-> IF refs[r] = "null" THEN "null" ELSE "released"]

\* the refs on which a stopAudio call of the later version acts although the
\* resource was released before (close() on a closed AudioContext rejects)
ReleasedBefore(refs) == {r \in RefNames : refs[r] = "released"}

LaterInit ==
    [isConnected |-> FALSE, refs |-> [r \in RefNames |-> "null"],
     touched |-> {}, messages |-> <<>>, currentTurnInput |-> Empty,
     currentTurnOutput |-> Empty, pending |-> <<>>, busy |-> FALSE,
     flushed |-> <<>>, received |-> 0]

\* the transcript of the later version. Its flush helpers hand setMessages an
\* updater that reads the ref when it runs: React runs an updater at once
\* when the component has no update pending, else at the next render
BufferLater(l, role) ==
    IF role = "user" THEN l.currentTurnInput ELSE l.currentTurnOutput

\* setMessages(prev => [...prev, {role, text: ref.current.trim()}])
setMessagesLater(l, role) ==
    IF l.busy THEN [l EXCEPT !.pending = Append(@, role)]
    ELSE [l EXCEPT !.messages = Append(@, Turn(role, trim(BufferLater(l, role)))),
                   !.busy = TRUE]

\* flushUserTurn of the later version; flushed keeps what the buffer held,
\* trimmed, each time a turn was handed to setMessages
flushUserTurnLater(l) ==
    LET buf == l.currentTurnInput
        l1 == IF trim(buf) # Empty
              THEN [setMessagesLater(l, "user") EXCEPT
                       !.flushed = Append(@, Turn("user", trim(buf)))]
              ELSE l
    IN [l1 EXCEPT !.currentTurnInput = Empty, !.busy = @ \/ buf # Empty]

flushAiTurnLater(l) ==
    LET buf == l.currentTurnOutput
        l1 == IF trim(buf) # Empty
              THEN [setMessagesLater(l, "model") EXCEPT
                       !.flushed = Append(@, Turn("model", trim(buf)))]
              ELSE l
    IN [l1 EXCEPT !.currentTurnOutput = Empty, !.busy = @ \/ buf # Empty]

\* onMessage of the later version for a message without tool call or audio
HandleMessageLater(l, m) ==
    LET l1 == IF m.input = Empty THEN l
              ELSE [(IF l.currentTurnOutput # Empty THEN flushAiTurnLater(l)
                     ELSE l)
                       EXCEPT !.currentTurnInput = @ \o m.input, !.busy = TRUE]
        l2 == IF m.output = Empty THEN l1
              ELSE [(IF l1.currentTurnInput # Empty THEN flushUserTurnLater(l1)
                     ELSE l1)
                       EXCEPT !.currentTurnOutput = @ \o m.output, !.busy = TRUE]
        l3 == IF m.turnComplete THEN flushAiTurnLater(flushUserTurnLater(l2))
              ELSE l2
    IN IF m.interrupted /\ l3.currentTurnOutput # Empty
       THEN flushAiTurnLater(l3) ELSE l3

\* a render: the queued updaters run in order, each reading its ref as it is now
RECURSIVE ApplyPending(_, _, _)
ApplyPending(turns, pending, l) ==
    IF pending = <<>> THEN turns
    ELSE ApplyPending(
             Append(turns, Turn(Head(pending), trim(BufferLater(l, Head(pending))))),
             Tail(pending), l)

\* ---------------------------------------------------- transcript log text
RECURSIVE LogLength(_)
LogLength(log) ==
    IF log = <<>> THEN 0
    ELSE LET line == Head(log)
             prefix == IF line.prefix = "User" THEN UserPrefixLen
                       ELSE AgentPrefixLen
         IN prefix + Len(line.text) + 1 + LogLength(Tail(log))

\* the string in transcriptLogRef.current: each append is the template
\* `User: ${text}\n` or `DeepSink: ${text}\n`
UserPrefix == <<"U", "s", "e", "r", ":", " ">>
AgentPrefix == <<"D", "e", "e", "p", "S", "i", "n", "k", ":", " ">>

LineText(line) ==
    (IF line.prefix = "User" THEN UserPrefix ELSE AgentPrefix)
        \o line.text \o <<"\n">>

RECURSIVE LogText(_)
LogText(log) ==
    IF log = <<>> THEN Empty ELSE LineText(Head(log)) \o LogText(Tail(log))

\* ------------------------------------------------------ session history
NoScore == [kind |-> "none", total |-> 0]
ShortScore == [kind |-> "short", total |-> 80]
FailedScore == [kind |-> "failed", total |-> 0]
ReportScore == [kind |-> "report", total |-> 90]

Take(q, n) == SubSeq(q, 1, IF Len(q) < n THEN Len(q) ELSE n)

saveSessionToHistory(saved, msgs, score) ==
    IF msgs = <<>> THEN saved
    ELSE Take(<<[messages |-> msgs, score |-> score]>> \o saved, MaxHistory)

\* finalMessages of handleDisconnect: the turns its closure holds, then the
\* pending text of each role read from the refs (else the closure's live text)
FinalMessages(closure, in, out) ==
    LET m0 == closure.messages
        m1 == IF in # Empty THEN Append(m0, Turn("user", trim(in)))
              ELSE IF closure.liveInput # Empty
                   THEN Append(m0, Turn("user", closure.liveInput))
                   ELSE m0
    IN IF out # Empty THEN Append(m1, Turn("model", trim(out)))
       ELSE IF closure.liveOutput # Empty
            THEN Append(m1, Turn("model", closure.liveOutput))
            ELSE m1

NoDisconnect ==
    [pc |-> "idle", messages |-> <<>>, liveInput |-> Empty,
     liveOutput |-> Empty, savedSessions |-> <<>>]

\* ------------------------------------------------------------------- Init
Init ==
    /\ currentSceneId = "COFFEE_SHOP"
    /\ currentPersonaId = "SINK"
    /\ isConnected = FALSE
    /\ isMicOn = TRUE
    /\ error = "none"
    /\ isAiSpeaking = FALSE
    /\ messages = <<>>
    /\ liveInput = Empty
    /\ liveOutput = Empty
    /\ savedSessions = <<>>
    /\ isAnalyzing = FALSE
    /\ showResult = FALSE
    /\ scoreData = NoScore
    /\ inputCtx = FALSE
    /\ stream = FALSE
    /\ processor = NoProcessor
    /\ outputCtx = FALSE
    /\ clock = 0
    /\ nextStartTime = 0
    /\ sources = {}
    /\ transcriptLog = <<>>
    /\ currentTurnInput = Empty
    /\ currentTurnOutput = Empty
    /\ session = 0
    /\ transports = <<>>
    /\ toolResponses = <<>>
    /\ audioSent = 0
    /\ scorerCalls = <<>>
    /\ reports = <<>>
    /\ inflight = {}
    /\ disc = NoDisconnect
    /\ received = <<>>
    /\ schedule = <<>>
    /\ epoch = 0
    /\ enqueued = 0
    /\ seen = 0
    /\ sessionFrom = 0
    /\ connects = 0
    /\ frames = 0
    /\ later = LaterInit
    /\ isUserSpeaking = FALSE
    /\ volume = 0

\* ---------------------------------------------------------------- actions
\* one connectLive call: the state of its transport session ("connecting",
\* "refused", "open", "failed", "closing", "closed"), the isMicOn its
\* callbacks' closure holds, and where its onOpen stands with getUserMedia
Transport(micOn) == [state |-> "connecting", isMicOn |-> micOn, mic |-> "none"]

\* the promise of a connectLive call has resolved to a session
Resolved(k) == transports[k].state \in {"open", "failed", "closing", "closed"}

\* connectToGemini, up to await geminiService.connectLive; the Start
\* Conversation button is rendered when !isConnected && !isAnalyzing and takes
\* clicks when the result modal is not shown
Connect ==
    /\ ~isConnected /\ ~isAnalyzing /\ ~showResult
    /\ connects' = connects + 1
    /\ error' = "none"
    /\ Commit([stopAudio(Cur) EXCEPT !.transcriptLog = <<>>,
                                     !.currentTurnInput = Empty,
                                     !.currentTurnOutput = Empty,
                                     !.messages = <<>>,
                                     !.liveInput = Empty,
                                     !.liveOutput = Empty,
                                     !.nextStartTime = 0,
                                     !.epoch = @ + 1,
                                     !.enqueued = 0,
                                     !.seen = 0])
    /\ sessionFrom' = Len(received)
    /\ StopCapture
    /\ inputCtx' = TRUE
    /\ outputCtx' = TRUE
    /\ clock' = 0
    /\ transports' = Append(transports, Transport(isMicOn))
    /\ session' = Len(transports) + 1
    /\ UNCHANGED <<isConnected, isMicOn, savedSessions, isAnalyzing,
                   showResult, scoreData, scorerCalls, inflight, disc,
                   received, outboundVars>>
    /\ isUserSpeaking' = FALSE
    /\ UNCHANGED <<later, volume>>

\* connectLive rejects: the catch block of connectToGemini
ConnectFailed(k) ==
    /\ k \in DOMAIN transports
    /\ transports[k].state = "connecting"
    /\ transports' = [transports EXCEPT ![k].state = "refused"]
    /\ error' = "init"
    /\ UNCHANGED <<currentSceneId, currentPersonaId, isConnected, isMicOn,
                   isAiSpeaking, messages, liveInput, liveOutput,
                   savedSessions, isAnalyzing, showResult, scoreData,
                   captureVars, outputCtx, clock, nextStartTime, sources,
                   transcriptLog, currentTurnInput, currentTurnOutput,
                   session, toolResponses, scorerCalls, inflight, disc,
                   received, schedule, epoch, enqueued, seen, sessionFrom,
                   connects, outboundVars>>
    /\ UNCHANGED <<later, vadVars>>

\* the onOpen callback, up to await getUserMedia
OnOpen(k) ==
    /\ k \in DOMAIN transports
    /\ transports[k].state = "connecting"
    /\ transports' = [transports EXCEPT ![k].state = "open",
                                        ![k].mic = "pending"]
    /\ isConnected' = TRUE
    /\ UNCHANGED <<currentSceneId, currentPersonaId, isMicOn, error,
                   isAiSpeaking, messages, liveInput, liveOutput,
                   savedSessions, isAnalyzing, showResult, scoreData,
                   captureVars, outputCtx, clock, nextStartTime, sources,
                   transcriptLog, currentTurnInput, currentTurnOutput,
                   session, toolResponses, scorerCalls, inflight, disc,
                   received, schedule, epoch, enqueued, seen, sessionFrom,
                   connects, outboundVars>>
    /\ UNCHANGED <<later, vadVars>>

\* the average bin magnitude above which the user counts as speaking
SpeakingThreshold == 15

\* checkVolume: the classification it hands to setIsUserSpeaking, from
\* whether analyserRef.current is set, the isMicOn of its closure and the
\* average of the analyser's frequency bins
checkVolume(analyser, micOn, avg) ==
    IF ~analyser \/ ~micOn THEN FALSE ELSE avg > SpeakingThreshold

\* the rest of onOpen, getUserMedia having resolved: the stream is kept, and
\* with an input context the analyser and the frame callback are wired and
\* checkVolume runs a first time, on an analyser that has seen no audio yet
OnMicReady(k) ==
    /\ k \in DOMAIN transports
    /\ transports[k].mic = "pending"
    /\ transports' = [transports EXCEPT ![k].mic = "ready"]
    /\ stream' = TRUE
    /\ processor' = IF inputCtx THEN Processor(transports[k].isMicOn)
                    ELSE processor
    /\ isUserSpeaking' = IF inputCtx
                         THEN checkVolume(TRUE, transports[k].isMicOn, 0)
                         ELSE isUserSpeaking
    /\ volume' = IF inputCtx THEN 0 ELSE volume
    /\ UNCHANGED <<currentSceneId, currentPersonaId, isConnected, isMicOn,
                   error, isAiSpeaking, messages, liveInput, liveOutput,
                   savedSessions, isAnalyzing, showResult, scoreData,
                   inputCtx, outputCtx, clock, nextStartTime, sources,
                   transcriptLog, currentTurnInput, currentTurnOutput,
                   session, toolResponses, scorerCalls, inflight, disc,
                   received, schedule, epoch, enqueued, seen, sessionFrom,
                   connects, outboundVars>>
    /\ UNCHANGED later

\* mutant of OnMicDenied: a microphone fault also drops the session
OnMicDeniedCloses(k) ==
    /\ k \in DOMAIN transports
    /\ transports[k].mic = "pending"
    /\ transports' = [transports EXCEPT ![k].mic = "denied"]
    /\ error' = "mic"
    /\ isConnected' = FALSE
    /\ UNCHANGED <<currentSceneId, currentPersonaId, isMicOn,
                   isAiSpeaking, messages, liveInput, liveOutput,
                   savedSessions, isAnalyzing, showResult, scoreData,
                   captureVars, outputCtx, clock, nextStartTime, sources,
                   transcriptLog, currentTurnInput, currentTurnOutput,
                   session, toolResponses, scorerCalls, inflight, disc,
                   received, schedule, epoch, enqueued, seen, sessionFrom,
                   connects, outboundVars>>
    /\ UNCHANGED <<later, vadVars>>

\* the rest of onOpen, getUserMedia having rejected
OnMicDenied(k) ==
    /\ k \in DOMAIN transports
    /\ transports[k].mic = "pending"
    /\ transports' = [transports EXCEPT ![k].mic = "denied"]
    /\ error' = "mic"
    /\ UNCHANGED <<currentSceneId, currentPersonaId, isConnected, isMicOn,
                   isAiSpeaking, messages, liveInput, liveOutput,
                   savedSessions, isAnalyzing, showResult, scoreData,
                   captureVars, outputCtx, clock, nextStartTime, sources,
                   transcriptLog, currentTurnInput, currentTurnOutput,
                   session, toolResponses, scorerCalls, inflight, disc,
                   received, schedule, epoch, enqueued, seen, sessionFrom,
                   connects, outboundVars>>
    /\ UNCHANGED <<later, vadVars>>

\* the onClose callback
OnClose(k) ==
    /\ k \in DOMAIN transports
    /\ transports[k].state \in {"open", "failed", "closing"}
    /\ transports' = [transports EXCEPT ![k].state = "closed"]
    /\ isConnected' = FALSE
    /\ isAiSpeaking' = FALSE
    /\ UNCHANGED <<currentSceneId, currentPersonaId, isMicOn, error,
                   messages, liveInput, liveOutput, savedSessions, isAnalyzing,
                   showResult, scoreData, captureVars, outputCtx, clock,
                   nextStartTime, sources, transcriptLog, currentTurnInput,
                   currentTurnOutput, session, toolResponses, scorerCalls,
                   inflight, disc, received, schedule, epoch, enqueued, seen,
                   sessionFrom, connects, outboundVars>>
    /\ isUserSpeaking' = FALSE
    /\ UNCHANGED <<later, volume>>

\* the onError callback of an open session
OnError(k) ==
    /\ k \in DOMAIN transports
    /\ transports[k].state = "open"
    /\ transports' = [transports EXCEPT ![k].state = "failed"]
    /\ error' = "connection"
    /\ isConnected' = FALSE
    /\ isAiSpeaking' = FALSE
    /\ UNCHANGED <<currentSceneId, currentPersonaId, isMicOn,
                   messages, liveInput, liveOutput, savedSessions, isAnalyzing,
                   showResult, scoreData, captureVars, outputCtx, clock,
                   nextStartTime, sources, transcriptLog, currentTurnInput,
                   currentTurnOutput, session, toolResponses, scorerCalls,
                   inflight, disc, received, schedule, epoch, enqueued, seen,
                   sessionFrom, connects, outboundVars>>
    /\ isUserSpeaking' = FALSE
    /\ UNCHANGED <<later, volume>>

\* the onMessage callback of an open session, up to await decodeAudioData (or
\* to its end when there is no audio to decode, or decode() throws on it)
OnMessage(m) ==
    /\ \E k \in DOMAIN transports : transports[k].state = "open"
    /\ received' = Append(received, m)
    /\ LET s1 == HandleToolCall(HandleTranscription(Cur, m), m.calls)
           hasAudio == m.audio.kind # "none" /\ outputCtx
           s2 == IF hasAudio THEN AdvanceCursor(s1, clock) ELSE s1
           suspends == hasAudio /\ m.audio.kind # "malformed"
           h == [id |-> Len(received) + 1, audio |-> m.audio,
                 interrupted |-> m.interrupted, epoch |-> s2.epoch,
                 now |-> clock, first |-> s1.enqueued = 0]
       IN /\ Commit(IF suspends THEN s2
                    ELSE HandleInterruption(s2, m.interrupted))
          /\ inflight' = IF suspends THEN inflight \cup {h} ELSE inflight
    /\ UNCHANGED <<isConnected, isMicOn, error, savedSessions, isAnalyzing,
                   showResult, scoreData, captureVars, outputCtx, clock,
                   session, transports, scorerCalls, disc, sessionFrom,
                   connects, outboundVars>>
    /\ UNCHANGED <<later, vadVars>>

\* mutant of ResumeAfterDecode: no try/catch, a decode fault ends the handler
ResumeAbortsOnFault(s, h, now) ==
    IF h.audio.kind = "pcm"
    THEN HandleInterruption(StartSource(s, h, now), h.interrupted)
    ELSE s

\* onMessage from the await on: the decoded buffer is started, or the decode
\* fault is caught and logged, and then the interruption branch runs
ResumeAfterDecode(s, h, now) ==
    HandleInterruption(
        IF h.audio.kind = "pcm" THEN StartSource(s, h, now) ELSE s,
        h.interrupted)

\* the rest of onMessage, after await decodeAudioData
OnDecoded(h) ==
    /\ h \in inflight
    /\ inflight' = inflight \ {h}
    /\ Commit(ResumeAfterDecode(Cur, h, clock))
    /\ UNCHANGED <<isConnected, isMicOn, error, savedSessions, isAnalyzing,
                   showResult, scoreData, captureVars, outputCtx, clock,
                   session, transports, scorerCalls, disc, received,
                   sessionFrom, connects, outboundVars>>
    /\ UNCHANGED <<later, vadVars>>

\* mutant of EndedListener: any completion event clears isAiSpeaking
EndedListenerClearsSpeaking(s, src) ==
    [s EXCEPT !.sources = @ \ {src}, !.isAiSpeaking = FALSE]

\* the 'ended' listener of a source: sourcesRef.current.delete(source), and
\* isAiSpeaking cleared when the set is then empty
EndedListener(s, src) ==
    [s EXCEPT !.sources = @ \ {src},
              !.isAiSpeaking = IF s.sources \ {src} = {} THEN FALSE ELSE @]

\* the 'ended' event of a source that has played to its end
SourceEnded(src) ==
    /\ src \in sources
    /\ clock >= PlayEnd(src)
    /\ sources' = EndedListener(Cur, src).sources
    /\ isAiSpeaking' = EndedListener(Cur, src).isAiSpeaking
    /\ UNCHANGED <<currentSceneId, currentPersonaId, isConnected, isMicOn,
                   error, messages, liveInput, liveOutput, savedSessions,
                   isAnalyzing, showResult, scoreData, captureVars, outputCtx,
                   clock, nextStartTime, transcriptLog, currentTurnInput,
                   currentTurnOutput, session, transports, toolResponses,
                   scorerCalls, inflight, disc, received, schedule, epoch,
                   enqueued, seen, sessionFrom, connects, outboundVars>>
    /\ UNCHANGED <<later, vadVars>>

\* the 'ended' event of a source that source.stop() has stopped: it was
\* started and the live set no longer holds it
StoppedSourceEnded(src) ==
    /\ src \in {schedule[i] : i \in DOMAIN schedule} \ sources
    /\ sources' = EndedListener(Cur, src).sources
    /\ isAiSpeaking' = EndedListener(Cur, src).isAiSpeaking
    /\ UNCHANGED <<currentSceneId, currentPersonaId, isConnected, isMicOn,
                   error, messages, liveInput, liveOutput, savedSessions,
                   isAnalyzing, showResult, scoreData, captureVars, outputCtx,
                   clock, nextStartTime, transcriptLog, currentTurnInput,
                   currentTurnOutput, session, transports, toolResponses,
                   scorerCalls, inflight, disc, received, schedule, epoch,
                   enqueued, seen, sessionFrom, connects, outboundVars>>
    /\ UNCHANGED <<later, vadVars>>

\* the audio clock of the output context advances
Tick ==
    /\ outputCtx
    /\ clock < MaxClock
    /\ clock' = clock + 1
    /\ UNCHANGED <<currentSceneId, currentPersonaId, isConnected, isMicOn,
                   error, isAiSpeaking, messages, liveInput, liveOutput,
                   savedSessions, isAnalyzing, showResult, scoreData,
                   captureVars, outputCtx, nextStartTime, sources,
                   transcriptLog, currentTurnInput, currentTurnOutput,
                   session, transports, toolResponses, scorerCalls, inflight,
                   disc, received, schedule, epoch, enqueued, seen,
                   sessionFrom, connects, outboundVars>>
    /\ UNCHANGED <<later, vadVars>>

\* the microphone button, rendered while isConnected
ToggleMic ==
    /\ isConnected /\ ~showResult
    /\ isMicOn' = ~isMicOn
    /\ UNCHANGED <<currentSceneId, currentPersonaId, isConnected, error,
                   isAiSpeaking, messages, liveInput, liveOutput,
                   savedSessions, isAnalyzing, showResult, scoreData,
                   captureVars, outputCtx, clock, nextStartTime, sources,
                   transcriptLog, currentTurnInput, currentTurnOutput,
                   session, transports, toolResponses, scorerCalls, inflight,
                   disc, received, schedule, epoch, enqueued, seen,
                   sessionFrom, connects, outboundVars>>
    /\ UNCHANGED <<later, vadVars>>

\* processor.onaudioprocess for one captured frame: returns when the isMicOn
\* of its closure is false, else encodes the frame and calls sendAudio, which
\* sends through this.session when it is set
AudioProcess ==
    /\ processor.attached
    /\ frames' = frames + 1
    /\ audioSent' = IF processor.isMicOn /\ session # 0
                    THEN audioSent + 1 ELSE audioSent
    /\ UNCHANGED <<currentSceneId, currentPersonaId, isConnected, isMicOn,
                   error, isAiSpeaking, messages, liveInput, liveOutput,
                   savedSessions, isAnalyzing, showResult, scoreData,
                   captureVars, outputCtx, clock, nextStartTime, sources,
                   transcriptLog, currentTurnInput, currentTurnOutput,
                   session, transports, toolResponses, scorerCalls, reports,
                   inflight, disc, received, schedule, epoch, enqueued, seen,
                   sessionFrom, connects>>
    /\ UNCHANGED <<later, vadVars>>

\* averages the analyser can report, on both sides of the threshold
Volumes == {0, SpeakingThreshold, SpeakingThreshold + 1, 255}

\* one animation frame of checkVolume, the analyser reporting avg; the loop
\* is requested in onOpen with the analyser and cancelled by stopAudio with it
CheckVolume(avg) ==
    /\ processor.attached
    /\ isUserSpeaking' = checkVolume(processor.attached, processor.isMicOn, avg)
    /\ volume' = avg
    /\ UNCHANGED <<mainVars, later>>

\* handleCloseResult
CloseResult ==
    /\ showResult
    /\ showResult' = FALSE
    /\ scoreData' = NoScore
    /\ UNCHANGED <<currentSceneId, currentPersonaId, isConnected, isMicOn,
                   error, isAiSpeaking, messages, liveInput, liveOutput,
                   savedSessions, isAnalyzing, captureVars, outputCtx, clock,
                   nextStartTime, sources, transcriptLog, currentTurnInput,
                   currentTurnOutput, session, transports, toolResponses,
                   scorerCalls, inflight, disc, received, schedule, epoch,
                   enqueued, seen, sessionFrom, connects, outboundVars>>
    /\ UNCHANGED <<later, vadVars>>

\* handleDisconnect from setScoreData to its end
FinishDisconnect(closure, score) ==
    /\ scoreData' = score
    /\ savedSessions' =
           saveSessionToHistory(
               closure.savedSessions,
               FinalMessages(closure, currentTurnInput, currentTurnOutput),
               score)
    /\ liveInput' = Empty
    /\ liveOutput' = Empty
    /\ isAnalyzing' = FALSE
    /\ showResult' = TRUE
    /\ disc' = NoDisconnect

\* handleDisconnect, up to await geminiService.disconnect(); the End Session
\* button is rendered while isConnected
DisconnectCall ==
    /\ isConnected /\ ~showResult
    /\ disc.pc = "idle"
    /\ disc' = [pc |-> "closing", messages |-> messages,
                liveInput |-> liveInput, liveOutput |-> liveOutput,
                savedSessions |-> savedSessions]
    /\ UNCHANGED <<currentSceneId, currentPersonaId, isConnected, isMicOn,
                   error, isAiSpeaking, messages, liveInput, liveOutput,
                   savedSessions, isAnalyzing, showResult, scoreData,
                   captureVars, outputCtx, clock, nextStartTime, sources,
                   transcriptLog, currentTurnInput, currentTurnOutput,
                   session, transports, toolResponses, scorerCalls, inflight,
                   received, schedule, epoch, enqueued, seen, sessionFrom,
                   connects, outboundVars>>
    /\ UNCHANGED <<later, vadVars>>

\* handlePersonaSelect, a click on an entry of the persona menu: returns when
\* the persona is the current one, else sets it and, while connected, calls
\* handleDisconnect (which runs up to await geminiService.disconnect())
PersonaSelect(pid) ==
    /\ ~showResult
    /\ pid # currentPersonaId
    /\ currentPersonaId' = pid
    /\ IF isConnected
       THEN /\ disc.pc = "idle"
            /\ disc' = [pc |-> "closing", messages |-> messages,
                        liveInput |-> liveInput, liveOutput |-> liveOutput,
                        savedSessions |-> savedSessions]
       ELSE UNCHANGED disc
    /\ UNCHANGED <<currentSceneId, isConnected, isMicOn,
                   error, isAiSpeaking, messages, liveInput, liveOutput,
                   savedSessions, isAnalyzing, showResult, scoreData,
                   captureVars, outputCtx, clock, nextStartTime, sources,
                   transcriptLog, currentTurnInput, currentTurnOutput,
                   session, transports, toolResponses, scorerCalls, inflight,
                   received, schedule, epoch, enqueued, seen, sessionFrom,
                   connects, outboundVars>>
    /\ UNCHANGED <<later, vadVars>>

\* mutant of DisconnectClosed: every non-empty transcript log goes to the scorer
DisconnectClosedScoresNonEmpty ==
    /\ disc.pc = "closing"
    /\ session # 0 => Resolved(session)
    /\ session' = 0
    /\ transports' = IF session # 0 /\ transports[session].state
                                          \in {"open", "failed"}
                     THEN [transports EXCEPT ![session].state = "closing"]
                     ELSE transports
    /\ sources' = stopAudio(Cur).sources
    /\ isAiSpeaking' = stopAudio(Cur).isAiSpeaking
    /\ StopCapture
    /\ inputCtx' = FALSE
    /\ outputCtx' = FALSE
    /\ isConnected' = FALSE
    /\ IF transcriptLog = <<>>
       THEN /\ FinishDisconnect(disc, ShortScore)
            /\ UNCHANGED scorerCalls
       ELSE /\ scorerCalls' = Append(scorerCalls, transcriptLog)
            /\ isAnalyzing' = TRUE
            /\ disc' = [disc EXCEPT !.pc = "reporting"]
            /\ UNCHANGED <<scoreData, savedSessions, liveInput, liveOutput,
                           showResult>>
    /\ UNCHANGED <<currentSceneId, currentPersonaId, isMicOn, error, messages,
                   clock, nextStartTime, transcriptLog, currentTurnInput,
                   currentTurnOutput, toolResponses, inflight, received,
                   schedule, epoch, enqueued, seen, sessionFrom, connects,
                   outboundVars>>
    /\ isUserSpeaking' = FALSE
    /\ UNCHANGED <<later, volume>>

\* GeminiService.disconnect closes the session this.session resolved to;
\* handleDisconnect goes on with stopAudio and, for a short transcript log,
\* runs to its end
DisconnectClosed ==
    /\ disc.pc = "closing"
    /\ session # 0 => Resolved(session)
    /\ session' = 0
    /\ transports' = IF session # 0 /\ transports[session].state
                                          \in {"open", "failed"}
                     THEN [transports EXCEPT ![session].state = "closing"]
                     ELSE transports
    /\ sources' = stopAudio(Cur).sources
    /\ isAiSpeaking' = stopAudio(Cur).isAiSpeaking
    /\ StopCapture
    /\ inputCtx' = FALSE
    /\ outputCtx' = FALSE
    /\ isConnected' = FALSE
    /\ IF LogLength(transcriptLog) < MinReportLen
       THEN /\ FinishDisconnect(disc, ShortScore)
            /\ UNCHANGED scorerCalls
       ELSE /\ scorerCalls' = Append(scorerCalls, transcriptLog)
            /\ isAnalyzing' = TRUE
            /\ disc' = [disc EXCEPT !.pc = "reporting"]
            /\ UNCHANGED <<scoreData, savedSessions, liveInput, liveOutput,
                           showResult>>
    /\ UNCHANGED <<currentSceneId, currentPersonaId, isMicOn, error, messages,
                   clock, nextStartTime, transcriptLog, currentTurnInput,
                   currentTurnOutput, toolResponses, inflight, received,
                   schedule, epoch, enqueued, seen, sessionFrom, connects,
                   outboundVars>>
    /\ isUserSpeaking' = FALSE
    /\ UNCHANGED <<later, volume>>

\* GeminiService.disconnect awaits a this.session that was rejected:
\* handleDisconnect ends there with the rejection
DisconnectThrows ==
    /\ disc.pc = "closing"
    /\ session # 0
    /\ transports[session].state = "refused"
    /\ disc' = NoDisconnect
    /\ UNCHANGED <<currentSceneId, currentPersonaId, isConnected, isMicOn,
                   error, isAiSpeaking, messages, liveInput, liveOutput,
                   savedSessions, isAnalyzing, showResult, scoreData,
                   captureVars, outputCtx, clock, nextStartTime, sources,
                   transcriptLog, currentTurnInput, currentTurnOutput,
                   session, transports, toolResponses, scorerCalls, inflight,
                   received, schedule, epoch, enqueued, seen, sessionFrom,
                   connects, outboundVars>>
    /\ UNCHANGED <<later, vadVars>>

\* mutant of FinalScore: a missing report leaves the scorecard unset
FinalScoreKeepsNull(data) ==
    IF data = "null" THEN NoScore ELSE ReportScore

\* finalScore of handleDisconnect from what generateReport returned
FinalScore(data) ==
    IF data = "null" THEN FailedScore ELSE ReportScore

\* handleDisconnect after await geminiService.generateReport, which returned
\* the parsed report or null
DisconnectReported(data) ==
    /\ disc.pc = "reporting"
    /\ reports' = Append(reports, data)
    /\ FinishDisconnect(disc, FinalScore(data))
    /\ UNCHANGED <<currentSceneId, currentPersonaId, isConnected, isMicOn,
                   error, isAiSpeaking, messages, captureVars, outputCtx,
                   clock, nextStartTime, sources, transcriptLog,
                   currentTurnInput, currentTurnOutput, session, transports,
                   toolResponses, scorerCalls, inflight, received, schedule,
                   epoch, enqueued, seen, sessionFrom, connects, audioSent,
                   frames>>
    /\ UNCHANGED <<later, vadVars>>

\* ------------------------------------------ the later version of App
\* connectToGemini of the later version, up to await connectLive: stopAudio,
\* then two new audio contexts
ConnectLater ==
    /\ ~later.isConnected
    /\ later' = [later EXCEPT
                   !.touched = ReleasedBefore(later.refs),
                   !.refs = [stopAudioLater(later.refs) EXCEPT
                                !["inputAudioContextRef"] = "live",
                                !["outputAudioContextRef"] = "live"],
                   !.currentTurnInput = Empty,
                   !.currentTurnOutput = Empty,
                   !.messages = <<>>,
                   !.pending = <<>>,
                   !.flushed = <<>>,
                   !.busy = TRUE]
    /\ UNCHANGED <<mainVars, vadVars>>

\* onOpen of the later version with getUserMedia resolving (the capture nodes
\* are created and kept in the refs) or rejecting
OnOpenLater(mic) ==
    /\ ~later.isConnected
    /\ later.refs["inputAudioContextRef"] = "live"
    /\ later' = [later EXCEPT
                   !.isConnected = TRUE,
                   !.busy = TRUE,
                   !.refs = IF mic
                            THEN [@ EXCEPT !["streamRef"] = "live",
                                           !["sourceRef"] = "live",
                                           !["analyserRef"] = "live",
                                           !["processorRef"] = "live"]
                            ELSE @]
    /\ UNCHANGED <<mainVars, vadVars>>

\* onClose / onError of the later version
OnCloseLater ==
    /\ later.isConnected
    /\ later' = [later EXCEPT !.isConnected = FALSE]
    /\ UNCHANGED <<mainVars, vadVars>>

\* handleDisconnect of the later version through its stopAudio call, the
\* session's close having run onClose
DisconnectLater ==
    /\ later.isConnected
    /\ later' = [later EXCEPT !.isConnected = FALSE,
                              !.touched = ReleasedBefore(later.refs),
                              !.refs = stopAudioLater(later.refs)]
    /\ UNCHANGED <<mainVars, vadVars>>

\* the onMessage callback of the later version
OnMessageLater(m) ==
    /\ later.isConnected
    /\ later' = [HandleMessageLater(later, m) EXCEPT !.received = @ + 1]
    /\ UNCHANGED <<mainVars, vadVars>>

\* React renders the later version's App: the updates queued so far are applied
RenderLater ==
    /\ later.busy
    /\ later' = [later EXCEPT
                   !.messages = ApplyPending(@, later.pending, later),
                   !.pending = <<>>,
                   !.busy = FALSE]
    /\ UNCHANGED <<mainVars, vadVars>>

\* ---------------------------------------------------------- specifications
FragTexts == {<<" ">>, <<" ", "b">>}

TranscriptMsgs ==
    {UserFrag(t) : t \in FragTexts} \cup {AgentFrag(t) : t \in FragTexts}
        \cup {TurnCompleteMsg, InterruptedMsg}

Next ==
    \/ connects < MaxConnects /\ Connect
    \/ \E k \in DOMAIN transports : OnOpen(k)
    \/ \E k \in DOMAIN transports : OnClose(k)
    \/ \E m \in TranscriptMsgs : Len(received) < MaxMsgs /\ OnMessage(m)
    \/ DisconnectCall
    \/ DisconnectClosed
    \/ \E data \in {"null", "json"} : DisconnectReported(data)

Spec == Init /\ [][Next]_vars

AudioMsgs ==
    {AudioMsg(d) : d \in 1..MaxDur} \cup {InterruptedMsg}

\* the playback of one session: the first connectToGemini of a run
NextAudio ==
    \/ transports = <<>> /\ Connect
    \/ \E k \in DOMAIN transports : OnOpen(k)
    \/ \E m \in AudioMsgs : Len(received) < MaxAudioMsgs /\ OnMessage(m)
    \/ \E h \in inflight : OnDecoded(h)
    \/ \E src \in sources : SourceEnded(src)
    \/ Tick

SpecAudio == Init /\ [][NextAudio]_vars

BargeInMsgs ==
    {AgentFrag(<<" ", "b">>), AgentFrag(<<" ">>), UserFrag(<<" ", "b">>),
     TurnCompleteMsg, InterruptedMsg, AudioMsg(1), AudioInterruptedMsg(1)}

NextBargeIn ==
    \/ connects < MaxConnects /\ Connect
    \/ \E k \in DOMAIN transports : OnOpen(k)
    \/ \E m \in BargeInMsgs : Len(received) < MaxMsgs /\ OnMessage(m)
    \/ \E h \in inflight : OnDecoded(h)

SpecBargeIn == Init /\ [][NextBargeIn]_vars

\* transcript and playback of one session side by side
OrderMsgs ==
    {UserFrag(<<" ", "b">>), AgentFrag(<<" ", "b">>), TurnCompleteMsg,
     AudioMsg(1), AudioInterruptedMsg(1)}

NextOrder ==
    \/ transports = <<>> /\ Connect
    \/ \E k \in DOMAIN transports : OnOpen(k)
    \/ \E m \in OrderMsgs : Len(received) < MaxAudioMsgs /\ OnMessage(m)
    \/ \E h \in inflight : OnDecoded(h)
    \/ \E src \in sources : SourceEnded(src)
    \/ Tick

SpecOrder == Init /\ [][NextOrder]_vars

\* tool calls: a registered scene and persona, identifiers that are in no
\* registry, one of them the name of an inherited property, and a tool that is
\* not declared
ToolTargets ==
    {<<"changeScene", "BEACH">>, <<"changeScene", "MOON">>,
     <<"changeScene", "constructor">>, <<"changePersona", "ROSS">>,
     <<"changePersona", "NOBODY">>, <<"openDoor", "BEACH">>}

ToolMsgs ==
    {ToolCallMsg(<<FunctionCall(t[1], t[2], "f1")>>) : t \in ToolTargets}
        \cup {ToolCallMsg(<<FunctionCall(t[1], t[2], "f1"),
                            FunctionCall(u[1], u[2], "f2")>>) :
                 t \in ToolTargets, u \in ToolTargets}

NextTools ==
    \/ connects < MaxConnects /\ Connect
    \/ \E k \in DOMAIN transports : OnOpen(k)
    \/ \E m \in ToolMsgs : Len(received) < MaxToolMsgs /\ OnMessage(m)

SpecTools == Init /\ [][NextTools]_vars

\* the capture pipeline of a session: microphone, mute button, frame callback
NextCapture ==
    \/ connects < MaxSessions /\ Connect
    \/ \E k \in DOMAIN transports : OnOpen(k)
    \/ \E k \in DOMAIN transports : OnMicReady(k)
    \/ \E k \in DOMAIN transports : OnMicDenied(k)
    \/ ToggleMic
    \/ frames < MaxFrames /\ AudioProcess
    \/ DisconnectCall
    \/ DisconnectClosed
    \/ CloseResult

SpecCapture == Init /\ [][NextCapture]_vars

\* fragments of both roles that can be told apart, with blanks at their
\* ends, between the signals that flush them
ConserveMsgs ==
    {UserFrag(<<"a", " ">>), UserFrag(<<" ", "b">>),
     AgentFrag(<<"c", " ">>), AgentFrag(<<" ", "d">>),
     Msg(<<"a", " ", "b">>, <<" ">>, TRUE, <<>>, NoAudio, FALSE),
     TurnCompleteMsg, InterruptedMsg, AudioInterruptedMsg(1)}

NextConserve ==
    \/ connects < MaxConnects /\ Connect
    \/ \E k \in DOMAIN transports : OnOpen(k)
    \/ \E m \in ConserveMsgs : Len(received) < MaxAudioMsgs /\ OnMessage(m)
    \/ \E h \in inflight : OnDecoded(h)

SpecConserve == Init /\ [][NextConserve]_vars

\* messages that carry several fields at once: every combination of a user
\* fragment, an agent fragment, turn-complete, audio and interrupted, and one
\* that carries a tool call besides all of them
FieldMsgs ==
    {Msg(in, out, tc, <<>>, audio, intr) :
        in \in {Empty, <<"a", " ">>}, out \in {Empty, <<" ", "c">>},
        tc \in BOOLEAN, audio \in {NoAudio, Pcm(1)}, intr \in BOOLEAN}
      \cup {Msg(<<"a", " ">>, <<" ", "c">>, TRUE,
                <<FunctionCall("changeScene", "BEACH", "f1")>>, Pcm(1), TRUE)}

NextFields ==
    \/ connects < MaxConnects /\ Connect
    \/ \E k \in DOMAIN transports : OnOpen(k)
    \/ \E m \in FieldMsgs : Len(received) < MaxLifeMsgs /\ OnMessage(m)
    \/ \E h \in inflight : OnDecoded(h)

SpecFields == Init /\ [][NextFields]_vars

\* the capture pipeline with the voice-activity loop
NextVad ==
    \/ NextCapture
    \/ \E avg \in Volumes : CheckVolume(avg)
    \/ \E k \in DOMAIN transports : OnClose(k)

SpecVad == Init /\ [][NextVad]_vars

\* a fragment long enough for the transcript log to be sent to the scorer
LongText == [i \in 1..MinReportLen |-> "b"]

LifeMsgs == {AudioMsg(1), UserFrag(LongText)}

\* the lifecycle of sessions: connects, transport faults, disconnects
NextLifecycle ==
    \/ connects < MaxSessions /\ Connect
    \/ \E k \in DOMAIN transports : ConnectFailed(k)
    \/ \E k \in DOMAIN transports : OnOpen(k)
    \/ \E k \in DOMAIN transports : OnMicReady(k)
    \/ \E k \in DOMAIN transports : OnClose(k)
    \/ \E k \in DOMAIN transports : OnError(k)
    \/ \E m \in LifeMsgs : Len(received) < MaxLifeMsgs /\ OnMessage(m)
    \/ \E h \in inflight : OnDecoded(h)
    \/ DisconnectCall
    \/ DisconnectClosed
    \/ DisconnectThrows
    \/ \E data \in {"null", "json"} : DisconnectReported(data)
    \/ CloseResult

SpecLifecycle == Init /\ [][NextLifecycle]_vars

\* playback of one session with audio payloads that fail to decode
DecodeFaultMsgs ==
    {AudioMsg(1), AgentFrag(<<" ", "b">>)}
        \cup {FaultyAudioMsg(a, i) : a \in {Malformed, Undecodable},
                                      i \in BOOLEAN}

NextDecodeFault ==
    \/ transports = <<>> /\ Connect
    \/ \E k \in DOMAIN transports : OnOpen(k)
    \/ \E m \in DecodeFaultMsgs : Len(received) < MaxAudioMsgs /\ OnMessage(m)
    \/ \E h \in inflight : OnDecoded(h)

SpecDecodeFault == Init /\ [][NextDecodeFault]_vars

\* a session whose microphone may be refused: what it still receives
ListenMsgs ==
    {UserFrag(<<" ", "b">>), AgentFrag(<<" ", "b">>), AudioMsg(1),
     ToolCallMsg(<<FunctionCall("changeScene", "BEACH", "f1")>>)}

NextListenOnly ==
    \/ connects < MaxConnects /\ Connect
    \/ \E k \in DOMAIN transports : OnOpen(k)
    \/ \E k \in DOMAIN transports : OnMicReady(k)
    \/ \E k \in DOMAIN transports : OnMicDenied(k)
    \/ \E m \in ListenMsgs : Len(received) < MaxAudioMsgs /\ OnMessage(m)
    \/ \E h \in inflight : OnDecoded(h)
    \/ frames < MaxFrames /\ AudioProcess

SpecListenOnly == Init /\ [][NextListenOnly]_vars

\* every combination of the transcript parts of one message: a fragment of
\* either role or of both, turn-complete, interrupted
TurnMsgs ==
    {Msg(in, out, tc, <<>>, NoAudio, intr) :
        in \in FragTexts \cup {Empty}, out \in FragTexts \cup {Empty},
        tc \in BOOLEAN, intr \in BOOLEAN}

NextTurns ==
    \/ connects < MaxConnects /\ Connect
    \/ \E k \in DOMAIN transports : OnOpen(k)
    \/ \E m \in TurnMsgs : Len(received) < MaxLifeMsgs /\ OnMessage(m)

SpecTurns == Init /\ [][NextTurns]_vars

\* the transcript of a session in both versions of App, with the renders of
\* the later version falling anywhere between its handlers
NextFlush ==
    \/ connects < MaxConnects /\ Connect
    \/ \E k \in DOMAIN transports : OnOpen(k)
    \/ \E m \in TranscriptMsgs : Len(received) < MaxLifeMsgs /\ OnMessage(m)
    \/ ConnectLater
    \/ \E mic \in BOOLEAN : OnOpenLater(mic)
    \/ \E m \in TurnMsgs : later.received < MaxLifeMsgs /\ OnMessageLater(m)
    \/ RenderLater

SpecFlush == Init /\ [][NextFlush]_vars

\* teardown in both versions of App: sessions are opened, play audio, and are
\* ended or closed, one after another
TeardownMsgs == {AudioMsg(1), AgentFrag(<<" ", "b">>), InterruptedMsg}

NextTeardown ==
    \/ connects < MaxSessions /\ Connect
    \/ \E k \in DOMAIN transports : OnOpen(k)
    \/ \E k \in DOMAIN transports : OnMicReady(k)
    \/ \E m \in TeardownMsgs : Len(received) < MaxLifeMsgs /\ OnMessage(m)
    \/ \E h \in inflight : OnDecoded(h)
    \/ DisconnectCall
    \/ DisconnectClosed
    \/ CloseResult
    \/ ConnectLater
    \/ \E mic \in BOOLEAN : OnOpenLater(mic)
    \/ OnCloseLater
    \/ DisconnectLater

SpecTeardown == Init /\ [][NextTeardown]_vars

\* the live-source set of one session: sources are started, play to their
\* end or are stopped by an interruption, and their 'ended' events fire
LiveSetMsgs == {AudioMsg(1), InterruptedMsg, AudioInterruptedMsg(1)}

NextLiveSet ==
    \/ transports = <<>> /\ Connect
    \/ \E k \in DOMAIN transports : OnOpen(k)
    \/ \E m \in LiveSetMsgs : Len(received) < MaxLifeMsgs /\ OnMessage(m)
    \/ \E h \in inflight : OnDecoded(h)
    \/ \E src \in sources : SourceEnded(src)
    \/ \E i \in DOMAIN schedule : StoppedSourceEnded(schedule[i])
    \/ Tick

SpecLiveSet == Init /\ [][NextLiveSet]_vars

\* the transcript log of sessions: fragments of either role or both, one with
\* a line break in its text, one long enough for the log to reach the scorer
LineBreakText == <<"b", "\n", "b">>

LogMsgs ==
    {UserFrag(<<" ", "b">>), AgentFrag(<<" ", "b">>),
     Msg(LineBreakText, <<" ", "b">>, FALSE, <<>>, NoAudio, FALSE),
     TurnCompleteMsg, UserFrag(LongText)}

NextLog ==
    \/ connects < MaxSessions /\ Connect
    \/ \E k \in DOMAIN transports : OnOpen(k)
    \/ \E m \in LogMsgs : Len(received) < MaxLifeMsgs /\ OnMessage(m)
    \/ DisconnectCall
    \/ DisconnectClosed
    \/ \E data \in {"null", "json"} : DisconnectReported(data)
    \/ CloseResult

SpecLog == Init /\ [][NextLog]_vars

\* scene and persona under every kind of operation: fragments, turn-complete,
\* audio, interrupted, tool calls, connect, disconnect, the buttons
ConfigMsgs ==
    {UserFrag(<<" ", "b">>), TurnCompleteMsg, AudioInterruptedMsg(1)}
        \cup {ToolCallMsg(<<FunctionCall(t[1], t[2], "f1")>>) :
                 t \in ToolTargets}

NextConfig ==
    \/ connects < MaxConnects /\ Connect
    \/ \E k \in DOMAIN transports : OnOpen(k)
    \/ \E m \in ConfigMsgs : Len(received) < MaxToolMsgs /\ OnMessage(m)
    \/ \E h \in inflight : OnDecoded(h)
    \/ \E pid \in PersonaIds : PersonaSelect(pid)
    \/ ToggleMic
    \/ DisconnectCall
    \/ DisconnectClosed
    \/ CloseResult

SpecConfig == Init /\ [][NextConfig]_vars

\* the transcript logs of sessions around the scorer's threshold: a fragment
\* whose log line is one character short of it, one whose line reaches it
ShortText == [i \in 1..(MinReportLen - UserPrefixLen - 2) |-> "b"]

BoundaryText == [i \in 1..(MinReportLen - UserPrefixLen - 1) |-> "b"]

ScoreMsgs ==
    {UserFrag(ShortText), UserFrag(BoundaryText), AgentFrag(<<" ", "b">>)}

NextScore ==
    \/ connects < MaxSessions /\ Connect
    \/ \E k \in DOMAIN transports : OnOpen(k)
    \/ \E m \in ScoreMsgs : Len(received) < MaxLifeMsgs /\ OnMessage(m)
    \/ DisconnectCall
    \/ DisconnectClosed
    \/ \E data \in {"null", "json"} : DisconnectReported(data)
    \/ CloseResult

SpecScore == Init /\ [][NextScore]_vars

\* the end of a session: the scorer's promise settles (generateReport catches
\* every error and returns null), so its continuation is eventually run
NextSessionEnd ==
    \/ connects < MaxConnects /\ Connect
    \/ \E k \in DOMAIN transports : OnOpen(k)
    \/ \E m \in {UserFrag(LongText), AgentFrag(<<" ", "b">>)} :
          Len(received) < MaxMsgs /\ OnMessage(m)
    \/ DisconnectCall
    \/ DisconnectClosed
    \/ \E data \in {"null", "json"} : DisconnectReported(data)
    \/ CloseResult

SpecSessionEnd ==
    /\ Init
    /\ [][NextSessionEnd]_vars
    /\ WF_vars(\E data \in {"null", "json"} : DisconnectReported(data))

\* ------------------------------------------------------------- properties
\* the inbound messages of the current session, in arrival order
SessionEvents == SubSeq(received, sessionFrom + 1, Len(received))

Last(q) == q[Len(q)]

\* the transcript after committing a buffer as a turn of `role` when the
\* buffer's trimmed text is non-empty
Committed(turns, role, buf) ==
    IF trim(buf) # Empty THEN Append(turns, Turn(role, trim(buf))) ELSE turns

\* a message that carries exactly a fragment of one role
OnlyUserFragment(m) == m \in {UserFrag(t) : t \in FragTexts}
OnlyAgentFragment(m) == m \in {AgentFrag(t) : t \in FragTexts}

Scenario2 ==
    <<UserFrag(<<" ", "b">>), UserFrag(<<" ", "b">>), AgentFrag(<<" ", "b">>),
      TurnCompleteMsg>>

\* C2: a turn-complete signal leaves both pending buffers empty and appends
\* the user's pending turn, then the agent's, each when its trimmed text is
\* non-empty; the scenario of two user fragments, an agent fragment and
\* turn-complete yields exactly the user turn followed by the agent turn.
C2_TurnCompleteFlushesBoth ==
    /\ [][received' = Append(received, TurnCompleteMsg) =>
            /\ currentTurnInput' = Empty
            /\ currentTurnOutput' = Empty
            /\ messages' =
                   Committed(Committed(messages, "user", currentTurnInput),
                             "model", currentTurnOutput)]_vars
    /\ [](SessionEvents = Scenario2 =>
            /\ messages = <<Turn("user", <<"b", " ", "b">>),
                            Turn("model", <<"b">>)>>
            /\ currentTurnInput = Empty
            /\ currentTurnOutput = Empty)

\* C2 witness: the scenario has been received and its last turn committed.
C2_Witness ==
    /\ SessionEvents = Scenario2
    /\ Len(messages) = 2

\* the step in which a handler reaches the interruption branch of a message
\* that carries the interrupted signal: at once when the message has no audio
\* to decode, after the decode otherwise
InterruptionStep ==
    \/ \E m \in {InterruptedMsg} :
         received' = Append(received, m) /\ inflight' = inflight
    \/ \E h \in inflight :
         h.interrupted /\ inflight' = inflight \ {h} /\ received' = received

\* the scenario agent:"Let's go to", interrupted, user:"actually", turn-complete
Scenario3 ==
    <<AgentFrag(<<" ", "b">>), InterruptedMsg, UserFrag(<<" ", "b">>),
      TurnCompleteMsg>>

Scenario3Turns == <<Turn("model", <<"b">>), Turn("user", <<"b">>)>>

\* C3 as stated: the interrupted signal empties the live-source set in the
\* step that handles it and commits the agent's pending text as an agent turn
\* whenever that text is non-empty; the barge-in scenario yields exactly the
\* agent turn followed by the user turn.
C3_InterruptedAlwaysCommits ==
    /\ [][InterruptionStep =>
            /\ sources' = {}
            /\ currentTurnOutput' = Empty
            /\ IF currentTurnOutput # Empty
               THEN /\ Len(messages') = Len(messages) + 1
                    /\ SubSeq(messages', 1, Len(messages)) = messages
                    /\ Last(messages').role = "model"
               ELSE messages' = messages]_vars
    /\ [](SessionEvents = Scenario3 => messages = Scenario3Turns)

\* C3 (amended): the interrupted signal empties the live-source set in the
\* step that handles it, clears the agent's pending buffer and commits its
\* trimmed text as an agent turn when that trimmed text is non-empty (a buffer
\* holding only whitespace is cleared and no turn is recorded); the barge-in
\* scenario yields exactly the agent turn followed by the user turn.
C3_InterruptedFlushesAgent ==
    /\ [][InterruptionStep =>
            /\ sources' = {}
            /\ currentTurnOutput' = Empty
            /\ messages' = Committed(messages, "model", currentTurnOutput)]_vars
    /\ [](SessionEvents = Scenario3 => messages = Scenario3Turns)

\* C3 witness: an interrupted signal has just stopped a playing source and
\* committed the agent's pending text.
C3_Witness ==
    /\ Len(SessionEvents) >= 3
    /\ Last(SessionEvents) = InterruptedMsg
    /\ SessionEvents[Len(SessionEvents) - 1] = AudioMsg(1)
    /\ SessionEvents[Len(SessionEvents) - 2] = AgentFrag(<<" ", "b">>)
    /\ schedule # <<>>
    /\ Last(schedule).epoch < epoch
    /\ sources = {}
    /\ inflight = {}
    /\ messages # <<>>
    /\ Last(messages).role = "model"
    /\ currentTurnOutput = Empty

\* a source started in the epoch in which its handler took the chunk up
Fresh(e) == e.begun = e.epoch

\* C4: an interruption leaves zero live sources and the cursor reset, and the
\* first audio chunk taken up after it is scheduled at the clock time ("now":
\* no earlier than the clock when it was taken up, no later than the clock when
\* it is started), not after time accumulated by segments from before the
\* interruption.
C4_InterruptResetsSchedule ==
    /\ [][InterruptionStep => sources' = {} /\ nextStartTime' = 0]_vars
    /\ [](\A i \in DOMAIN schedule :
            LET e == schedule[i]
            IN (/\ e.first
                /\ Fresh(e)
                /\ \A j \in 1..(i - 1) :
                     schedule[j].epoch = e.epoch => ~Fresh(schedule[j]))
               => (e.now <= e.when /\ e.when <= e.at))

\* two source.start calls with no reset of the cursor between them, each by a
\* handler that took its chunk up after the last reset
SameRun(i, j) ==
    /\ schedule[i].epoch = schedule[j].epoch
    /\ Fresh(schedule[i])
    /\ Fresh(schedule[j])

End(e) == e.when + e.dur

\* C5 as stated: in a run of enqueues without an interrupt the first segment
\* starts at or after the clock time of its enqueue and every later segment
\* starts exactly at the previous segment's start plus its duration.
C5_GaplessExactly ==
    \A i \in DOMAIN schedule :
       Fresh(schedule[i]) =>
          IF i > 1 /\ SameRun(i - 1, i)
          THEN schedule[i].when = End(schedule[i - 1])
          ELSE schedule[i].when >= schedule[i].now

\* C5 (amended): in a run of enqueues without an interrupt the first segment
\* starts at or after the clock time of its enqueue and every later segment
\* starts at the maximum of the previous segment's start plus its duration and
\* the latest clock time an enqueue read since the previous segment was
\* started: exactly at the previous end unless the clock had run past it.
C5_GaplessOrNow ==
    \A i \in DOMAIN schedule :
       Fresh(schedule[i]) =>
          IF i > 1 /\ SameRun(i - 1, i)
          THEN schedule[i].when = Max(End(schedule[i - 1]), schedule[i].seen)
          ELSE schedule[i].when >= schedule[i].now

\* C5 witness: a later segment of a run was started at "now" because the
\* clock had passed the end of the segment before it, and another exactly at
\* the end of the segment before it.
C5_Witness ==
    /\ \E i \in DOMAIN schedule :
         i > 1 /\ SameRun(i - 1, i) /\ schedule[i].when > End(schedule[i - 1])
    /\ \E i \in DOMAIN schedule :
         i > 1 /\ SameRun(i - 1, i) /\ schedule[i].when = End(schedule[i - 1])

C7_StaleDecodeDiscarded ==
    /\ \A i \in DOMAIN schedule : Fresh(schedule[i])
    /\ \A src \in sources : Fresh(src)

\* C8: inbound messages are handled one at a time: while the handler of a
\* message is suspended no later message has been taken up.
C8_HandlersSerialized ==
    \A h \in inflight : h.id = Len(received)

\* handleDisconnect runs to its end in this step
DisconnectEnds == disc.pc # "idle" /\ disc'.pc = "idle"

\* C9: at session end both pending buffers are flushed into the transcript,
\* the user's first and then the agent's, before the transcript log is handed
\* to the scorer, and both are empty afterwards.
C9_FinalFlush ==
    /\ [][scorerCalls' # scorerCalls =>
            currentTurnInput' = Empty /\ currentTurnOutput' = Empty]_vars
    /\ [][DisconnectEnds =>
            /\ currentTurnInput' = Empty
            /\ currentTurnOutput' = Empty
            /\ messages' =
                   Committed(Committed(messages, "user", currentTurnInput),
                             "model", currentTurnOutput)]_vars

Blank(text) == trim(text) = Empty

\* C10: flushing never records a blank turn: a turn-complete signal arriving
\* while both buffers are blank (as right after another turn-complete)
\* appends nothing, and every turn recorded, in the live transcript or in a
\* session saved at disconnect, has non-empty trimmed text.
C10_NoBlankTurn ==
    /\ [][(/\ received' = Append(received, TurnCompleteMsg)
           /\ Blank(currentTurnInput)
           /\ Blank(currentTurnOutput)) => messages' = messages]_vars
    /\ [](\A i \in DOMAIN messages : ~Blank(messages[i].text))
    /\ [](\A k \in DOMAIN savedSessions :
            \A i \in DOMAIN savedSessions[k].messages :
               ~Blank(savedSessions[k].messages[i].text))

\* q is an initial segment of r
IsPrefix(q, r) == Len(q) <= Len(r) /\ SubSeq(r, 1, Len(q)) = q

\* what was said in a text, character by character with its speaker, blanks
\* left out (a flush trims them at the ends of a turn)
RECURSIVE Spoken(_, _)
Spoken(role, text) ==
    IF text = Empty THEN <<>>
    ELSE (IF Head(text) = " " THEN <<>> ELSE <<[role |-> role, ch |-> Head(text)]>>)
             \o Spoken(role, Tail(text))

RECURSIVE TurnsSpoken(_)
TurnsSpoken(turns) ==
    IF turns = <<>> THEN <<>>
    ELSE Spoken(Head(turns).role, Head(turns).text) \o TurnsSpoken(Tail(turns))

\* what the inbound events of a session said, in arrival order (a message's
\* user fragment is handled before its agent fragment)
RECURSIVE EventsSpoken(_)
EventsSpoken(events) ==
    IF events = <<>> THEN <<>>
    ELSE Spoken("user", Head(events).input)
             \o Spoken("model", Head(events).output)
             \o EventsSpoken(Tail(events))

\* C11: within a session the transcript is append-only (every step other than
\* a new connect leaves the recorded turns as a prefix), the recorded turns
\* followed by the pending text say exactly what the inbound events said, in
\* arrival order, whenever decodes complete, and the playback clock and the
\* end of a source's playback never touch the transcript.
C11_AppendOnlyInArrivalOrder ==
    /\ [][connects' = connects => IsPrefix(messages, messages')]_vars
    /\ [](TurnsSpoken(messages) \o Spoken("user", currentTurnInput)
             \o Spoken("model", currentTurnOutput)
          = EventsSpoken(SessionEvents))
    /\ [][(connects' = connects /\ received' = received /\ inflight' = inflight)
            => messages' = messages]_vars

\* C11 witness: a user turn and then an agent turn are recorded, the agent's
\* by the interruption branch of a message whose audio was decoded and started
\* after the clock had advanced.
C11_Witness ==
    /\ Len(messages) = 2
    /\ messages[1].role = "user"
    /\ messages[2].role = "model"
    /\ Last(SessionEvents) = AudioInterruptedMsg(1)
    /\ inflight = {}
    /\ schedule # <<>>
    /\ Last(schedule).at > Last(schedule).now

\* the function call names a target of its tool's fixed registry
InRegistry(fc) ==
    \/ fc.name = "changeScene" /\ fc.arg \in SceneIds
    \/ fc.name = "changePersona" /\ fc.arg \in PersonaIds

\* the ids of the calls that name a registry target, in call order
RECURSIVE RegistryIds(_)
RegistryIds(calls) ==
    IF calls = <<>> THEN <<>>
    ELSE (IF InRegistry(Head(calls)) THEN <<Head(calls).id>> ELSE <<>>)
             \o RegistryIds(Tail(calls))

\* the target the last registry call to `tool` names, else `current`
RECURSIVE LastTarget(_, _, _)
LastTarget(tool, calls, current) ==
    IF calls = <<>> THEN current
    ELSE LastTarget(tool, Tail(calls),
                    IF Head(calls).name = tool /\ InRegistry(Head(calls))
                    THEN Head(calls).arg ELSE current)

\* the tool responses sent in this step
NewResponses ==
    SubSeq(toolResponses', Len(toolResponses) + 1, Len(toolResponses'))

\* C12: a message whose function calls all name targets outside the registry
\* (an unknown scene id, an unknown persona id) changes neither the scene nor
\* the persona and sends no tool response.
C12_UnknownTargetDropped ==
    [][\A m \in ToolMsgs :
         (/\ received' = Append(received, m)
          /\ \A i \in DOMAIN m.calls : ~InRegistry(m.calls[i]))
         => /\ currentSceneId' = currentSceneId
            /\ currentPersonaId' = currentPersonaId
            /\ toolResponses' = toolResponses]_vars

C14_MuteGating ==
    [][frames' = frames + 1 =>
          audioSent' = IF isMicOn THEN audioSent + 1 ELSE audioSent]_vars

\* the transport sessions that are being opened or are open
LiveSessions == {k \in DOMAIN transports :
                   transports[k].state \in {"connecting", "open"}}

\* C15: a connect takes effect only from Idle (no connection attempt in
\* progress, no open session, no session end in progress, not analyzing), so
\* there is never more than one live transport session.
C15_ConnectOnlyFromIdle ==
    /\ [][connects' # connects =>
            /\ LiveSessions = {}
            /\ ~isAnalyzing
            /\ disc.pc = "idle"]_vars
    /\ [](Cardinality(LiveSessions) <= 1)

\* C16: a connect resets the transcript, both pending buffers, both live
\* display values, the transcript log, the cursor and the live-source set, and
\* nothing of a prior session shows in the new session's state: no source of a
\* decode begun in a prior session enters the live set, and a callback of a
\* prior session changes nothing while a newer session is installed.
C16_NoBleedAcrossSessions ==
    /\ [][connects' # connects =>
            /\ messages' = <<>>
            /\ currentTurnInput' = Empty /\ currentTurnOutput' = Empty
            /\ liveInput' = Empty /\ liveOutput' = Empty
            /\ transcriptLog' = <<>>
            /\ nextStartTime' = 0
            /\ sources' = {}]_vars
    /\ [](\A src \in sources : src.id > sessionFrom)
    /\ [][\A k \in DOMAIN transports :
            (k < session /\ session' = session /\ transports'[k] # transports[k])
            => /\ isConnected' = isConnected
               /\ isAiSpeaking' = isAiSpeaking
               /\ error' = error
               /\ captureVars' = captureVars]_vars

\* C17: handleDisconnect has closed the transport, torn down playback,
\* stopped capture and flushed both pending buffers into the transcript when it
\* enters Analyzing and hands the full transcript log to the scorer, and it
\* ends back in Idle.
C17_DisconnectOrder ==
    /\ [][Len(scorerCalls') > Len(scorerCalls) =>
            /\ LiveSessions' = {}
            /\ sources' = {} /\ ~outputCtx'
            /\ processor' = NoProcessor /\ ~stream' /\ ~inputCtx'
            /\ currentTurnInput' = Empty /\ currentTurnOutput' = Empty
            /\ messages' =
                   Committed(Committed(messages, "user", currentTurnInput),
                             "model", currentTurnOutput)
            /\ isAnalyzing'
            /\ Last(scorerCalls') = transcriptLog]_vars
    /\ [][DisconnectEnds => ~isAnalyzing' /\ ~isConnected']_vars

TransportFault ==
    \E k \in DOMAIN transports :
       /\ transports[k].state \in {"connecting", "open"}
       /\ transports'[k].state \in {"refused", "failed", "closed"}

\* C19: a transport fault leaves the application Idle with every capture and
\* playback resource released: frame callback disconnected, microphone and
\* both audio contexts released, live-source set empty.
C19_FaultReleasesResources ==
    [][TransportFault =>
          /\ ~isConnected'
          /\ processor' = NoProcessor
          /\ ~stream'
          /\ ~inputCtx'
          /\ ~outputCtx'
          /\ sources' = {}]_vars

\* what the interruption branch leaves, given that it ran or not
Interrupted(flag) ==
    IF flag
    THEN /\ sources' = {}
         /\ nextStartTime' = 0
         /\ currentTurnOutput' = Empty
         /\ messages' = Committed(messages, "model", currentTurnOutput)
    ELSE /\ sources' = sources
         /\ messages' = messages
         /\ currentTurnOutput' = currentTurnOutput

MicDenied == \E k \in DOMAIN transports : transports[k].mic = "denied"

\* getUserMedia has resolved in the onOpen of some session
MicReady == \E k \in DOMAIN transports : transports[k].mic = "ready"

\* C21: a microphone fault at session open is reported as an error and the
\* session stays open: the step that handles it sets the error and leaves the
\* connection, the transport and the capture refs as they were; with no
\* microphone obtained no frame callback is wired and no frame is sent; and a
\* message arriving afterwards is handled as in any open session (fragments
\* logged, tool calls applied and acknowledged, audio taken up for decoding
\* and started).
C21_ListenOnlyOnMicFault ==
    /\ [][\A k \in DOMAIN transports :
            (transports[k].mic = "pending" /\ transports'[k].mic = "denied")
            => /\ error' = "mic"
               /\ isConnected' = isConnected
               /\ transports'[k].state = transports[k].state
               /\ captureVars' = captureVars
               /\ audioSent' = audioSent]_vars
    /\ [](MicDenied => isConnected)
    /\ [](~MicReady => ~processor.attached /\ audioSent = 0)
    /\ [][\A m \in ListenMsgs :
            (MicDenied /\ received' = Append(received, m))
            => /\ transcriptLog' = HandleTranscription(Cur, m).transcriptLog
               /\ currentSceneId' = HandleToolCall(Cur, m.calls).currentSceneId
               /\ toolResponses' = HandleToolCall(Cur, m.calls).toolResponses
               /\ m.audio.kind = "pcm" => Cardinality(inflight') =
                                             Cardinality(inflight) + 1]_vars
    /\ [][\A h \in inflight :
            (MicDenied /\ inflight' = inflight \ {h} /\ received' = received)
            => \E src \in sources' : src.id = h.id]_vars

\* C21 witness: the microphone was refused, and after that a fragment was
\* logged, a scene change applied and acknowledged and an audio chunk started,
\* with no frame sent.
C21_Witness ==
    /\ MicDenied /\ ~MicReady
    /\ error = "mic"
    /\ isConnected
    /\ transcriptLog # <<>>
    /\ currentSceneId = "BEACH"
    /\ toolResponses = <<"f1">>
    /\ sources # {}
    /\ audioSent = 0

\* C22: no segment is scheduled in the past: every source.start call passes a
\* start time at or after the audio clock's time at the call.
C22_NeverScheduledInPast ==
    \A i \in DOMAIN schedule : schedule[i].when >= schedule[i].at

\* C23: playback order follows arrival order: of two chunks taken up and
\* started with no reset of the cursor in between, the one whose message
\* arrived first has the earlier (or equal) scheduled start, whatever order
\* the decodes complete in.
C23_PlaybackFollowsArrival ==
    \A i, j \in DOMAIN schedule :
       (SameRun(i, j) /\ schedule[i].id < schedule[j].id)
          => schedule[i].when <= schedule[j].when

\* C24: the interrupted signal leaves the user side untouched: the step that
\* handles it leaves the user's pending buffer, the live user display value
\* and the transcript log as they were, and the recorded turns too, apart
\* from the one agent turn it appends when the agent's pending text is not
\* blank.
C24_InterruptLeavesUserSide ==
    [][InterruptionStep =>
          /\ currentTurnInput' = currentTurnInput
          /\ liveInput' = liveInput
          /\ transcriptLog' = transcriptLog
          /\ messages' = Committed(messages, "model", currentTurnOutput)]_vars

\* C24 witness: the user was speaking (pending text, live display) while a
\* source played; the interrupted signal has stopped the source and the user's
\* pending text is still there.
C24_Witness ==
    /\ Len(SessionEvents) >= 3
    /\ Last(SessionEvents) = InterruptedMsg
    /\ SessionEvents[Len(SessionEvents) - 1] = UserFrag(<<" ", "b">>)
    /\ currentTurnInput = <<" ", "b">>
    /\ liveInput = <<" ", "b">>
    /\ schedule # <<>>
    /\ Last(schedule).epoch < epoch
    /\ sources = {}

\* C25: after every inbound event has been processed at most one of the two
\* pending buffers is non-empty, also after a message that carries a fragment
\* of each role.
C25_OnePendingBuffer ==
    currentTurnInput = Empty \/ currentTurnOutput = Empty

\* C25 witness: a message with a fragment of each role arrived while the
\* user's buffer was pending: the user's turn was committed and only the
\* agent's buffer is pending.
C25_Witness ==
    /\ Len(SessionEvents) >= 2
    /\ Last(SessionEvents)
         = Msg(<<" ", "b">>, <<" ", "b">>, FALSE, <<>>, NoAudio, FALSE)
    /\ SessionEvents[Len(SessionEvents) - 1] = UserFrag(<<" ", "b">>)
    /\ currentTurnInput = Empty
    /\ currentTurnOutput = <<" ", "b">>
    /\ messages = <<Turn("user", <<"b", " ", "b">>)>>

\* what the program holds of a handler's state, the run's bookkeeping left out
Held(s) ==
    [sources |-> s.sources, nextStartTime |-> s.nextStartTime,
     isAiSpeaking |-> s.isAiSpeaking, messages |-> s.messages,
     currentTurnInput |-> s.currentTurnInput,
     currentTurnOutput |-> s.currentTurnOutput,
     liveInput |-> s.liveInput, liveOutput |-> s.liveOutput,
     transcriptLog |-> s.transcriptLog]

\* C26: teardown and stop are idempotent: a second interrupt or stopAudio, or
\* one with zero live sources, leaves the state as the first did, and no
\* stopAudio call acts on a resource that was released before (stopAudio,
\* part_003:920-959, and its later version, part_003:1681-1693).
C26_TeardownIdempotent ==
    /\ Held(stopAudio(stopAudio(Cur))) = Held(stopAudio(Cur))
    /\ Held(HandleInterruption(HandleInterruption(Cur, TRUE), TRUE))
         = Held(HandleInterruption(Cur, TRUE))
    /\ sources = {} => Held(stopAudio(Cur)).sources = {}
    /\ stopAudioLater(stopAudioLater(later.refs)) = stopAudioLater(later.refs)
    /\ later.touched = {}

\* the sources started so far
Started == {schedule[i] : i \in DOMAIN schedule}

\* C27: the live-source set holds started sources only; a source is added in
\* the step that starts it (and the set is emptied in the same step when that
\* message carries the interrupted signal); apart from that the set changes
\* only by an interruption emptying it or by the completion event of one of
\* its sources, played to its end, removing that source; and the completion
\* event of a source no longer in the set changes nothing.
C27_LiveSetTracksSources ==
    /\ [](sources \subseteq Started)
    /\ [][\A h \in inflight :
            (inflight' = inflight \ {h} /\ received' = received)
            => /\ Last(schedule') \in Started' \ Started
               /\ sources' = IF h.interrupted THEN {}
                             ELSE sources \cup {Last(schedule')}]_vars
    /\ [][(schedule' = schedule /\ sources' # sources)
            => \/ InterruptionStep /\ sources' = {}
               \/ \E src \in sources :
                    /\ sources' = sources \ {src}
                    /\ clock >= PlayEnd(src)
                    /\ received' = received]_vars
    /\ [](\A src \in Started \ sources : EndedListener(Cur, src) = Cur)

\* C27 witness: a source was stopped by an interruption, a later source has
\* been started and is the only one in the live set, marked as playing.
C27_Witness ==
    /\ Len(schedule) = 2
    /\ schedule[1].epoch < schedule[2].epoch
    /\ sources = {schedule[2]}
    /\ isAiSpeaking
    /\ inflight = {}

\* C28: the recorded turns alternate between user and agent: no two
\* consecutive recorded turns have the same role.
C28_AlternatingTurns ==
    \A i \in 1..(Len(messages) - 1) : messages[i].role # messages[i + 1].role

\* a text cut into lines at its line breaks (an unterminated rest is a line)
Breaks(text) == {i \in 1..Len(text) : text[i] = "\n"}

Break(text, k) ==
    IF k = 0 THEN 0
    ELSE CHOOSE i \in Breaks(text) :
            Cardinality({j \in Breaks(text) : j < i}) = k - 1

Lines(text) ==
    LET n == Cardinality(Breaks(text))
        rest == SubSeq(text, Break(text, n) + 1, Len(text))
    IN [k \in 1..n |->
           SubSeq(text, Break(text, k - 1) + 1, Break(text, k) - 1)]
         \o (IF rest = Empty THEN <<>> ELSE <<rest>>)

\* "<Role>: <fragment text>" for each non-empty fragment of the events, in
\* arrival order (a message's user fragment before its agent fragment)
RECURSIVE FragmentLines(_)
FragmentLines(events) ==
    IF events = <<>> THEN <<>>
    ELSE (IF Head(events).input # Empty
          THEN <<UserPrefix \o Head(events).input>> ELSE <<>>)
         \o (IF Head(events).output # Empty
             THEN <<AgentPrefix \o Head(events).output>> ELSE <<>>)
         \o FragmentLines(Tail(events))

\* the lines, each with its line break, as one text
RECURSIVE Joined(_)
Joined(lines) ==
    IF lines = <<>> THEN Empty
    ELSE Head(lines) \o <<"\n">> \o Joined(Tail(lines))

\* the log only grows within a session, is cleared by connect alone, and the
\* scorer is handed the log as it stands
LogGrowsAndIsHandedOver ==
    /\ [][connects' = connects =>
            IsPrefix(LogText(transcriptLog), LogText(transcriptLog'))]_vars
    /\ [][connects' # connects => transcriptLog' = <<>>]_vars
    /\ [][Len(scorerCalls') > Len(scorerCalls) =>
            /\ LogText(Last(scorerCalls')) = LogText(transcriptLog)
            /\ transcriptLog' = transcriptLog]_vars

\* C29 as stated: the lines of the transcript log are exactly the lines
\* "<Role>: <fragment text>", one per non-empty fragment received in the
\* session, in arrival order; the log only grows within a session, is cleared
\* by connect alone and is handed to the scorer as it stands.
C29_OneLinePerFragment ==
    /\ [](Lines(LogText(transcriptLog)) = FragmentLines(SessionEvents))
    /\ LogGrowsAndIsHandedOver

\* C29 (amended): the transcript log is the concatenation, in arrival order,
\* of "<Role>: <fragment text>" followed by a line break for each non-empty
\* fragment received in the session (one line per fragment when the fragment's
\* text holds no line break, more when it does); the log only grows within a
\* session, is cleared by connect alone and is handed to the scorer as it
\* stands.
C29_LogRecordsFragments ==
    /\ [](LogText(transcriptLog) = Joined(FragmentLines(SessionEvents)))
    /\ [](Len(LogText(transcriptLog)) = LogLength(transcriptLog))
    /\ LogGrowsAndIsHandedOver

\* C29 witness: the scorer was handed a log of three fragments, of both roles,
\* which has four lines because one fragment held a line break.
C29_Witness ==
    /\ scorerCalls # <<>>
    /\ Last(scorerCalls) = transcriptLog
    /\ Len(FragmentLines(SessionEvents)) = 3
    /\ Len(Lines(LogText(transcriptLog))) = 4
    /\ \E i \in DOMAIN transcriptLog : transcriptLog[i].prefix = "DeepSink"

\* the message received in this step holds a call to `tool` with target `id`
ToolCallReceived(tool, id) ==
    \E m \in ConfigMsgs :
       /\ received' = Append(received, m)
       /\ \E i \in DOMAIN m.calls :
            m.calls[i].name = tool /\ m.calls[i].arg = id

VolumeChecked == \E avg \in Volumes : CheckVolume(avg)

\* C31: the voice-activity classification never gates transmission (a frame
\* is forwarded according to the mute flag its callback tests and the
\* session alone), and after a step of the volume loop the user is shown as
\* speaking exactly when the mic is on and the average is above 15
C31_VadIndependentOfSending ==
    [][/\ frames' = frames + 1 =>
            ((audioSent' = audioSent + 1) <=> (processor.isMicOn /\ session # 0))
       /\ VolumeChecked =>
            (isUserSpeaking' <=> (isMicOn /\ volume' > SpeakingThreshold))]_vars


\* the fragments a role received in a run of events, joined in arrival order
RECURSIVE Fragments(_, _)
Fragments(role, events) ==
    IF events = <<>> THEN Empty
    ELSE (IF role = "user" THEN Head(events).input ELSE Head(events).output)
             \o Fragments(role, Tail(events))

RoleTurns(role) == SelectSeq(messages, LAMBDA t : t.role = role)

Pending(role) == IF role = "user" THEN currentTurnInput ELSE currentTurnOutput

\* text is the turns' texts in order and then the pending text, with nothing
\* but blanks before, between and after the turns left out
RECURSIVE Conserved(_, _, _)
Conserved(turns, pending, text) ==
    IF turns = <<>>
    THEN /\ Len(pending) <= Len(text)
         /\ SubSeq(text, Len(text) - Len(pending) + 1, Len(text)) = pending
         /\ Blank(SubSeq(text, 1, Len(text) - Len(pending)))
    ELSE LET rest == TrimStart(text)
             said == Head(turns).text
         IN /\ IsPrefix(said, rest)
            /\ Conserved(Tail(turns), pending,
                         SubSeq(rest, Len(said) + 1, Len(rest)))

\* C32: text is conserved per role: at every point of a session the texts of
\* a role's recorded turns in order, followed by that role's pending buffer,
\* are the fragments received for that role in arrival order, less the
\* blanks trimmed where a turn was cut; every turn belongs to one of the two
\* roles, so no fragment is lost, doubled or given to the other role.
C32_TextConservedPerRole ==
    /\ \A role \in {"user", "model"} :
          Conserved(RoleTurns(role), Pending(role),
                    Fragments(role, SessionEvents))
    /\ \A i \in DOMAIN messages : messages[i].role \in {"user", "model"}

\* C32 witness: the user's text was cut after its first fragment, whose
\* trailing blank was trimmed, an agent turn was recorded after it, and the
\* user's second fragment is pending as it arrived
C32_Witness ==
    /\ messages = <<Turn("user", <<"a">>), Turn("model", <<"c">>)>>
    /\ currentTurnInput = <<" ", "b">>
    /\ Fragments("user", SessionEvents) = <<"a", " ", " ", "b">>
    /\ Fragments("model", SessionEvents) = <<"c", " ">>


\* C33: once the teardown of a disconnect has run the live-source set is
\* empty, and it stays empty until the next connect, also when the decode of
\* an audio chunk was still in flight when the teardown ran
C33_LiveSetEmptyAfterDisconnect ==
    [][/\ (disc.pc = "closing" /\ disc'.pc # "closing" /\ ~outputCtx')
            => sources' = {}
       /\ (~outputCtx /\ sources = {} /\ connects' = connects)
            => sources' = {}]_vars

\* C34: the agent-speaking indicator agrees with the scheduler: between
\* handler steps isAiSpeaking is true exactly when the live-source set is
\* non-empty, across enqueue, natural completion, interrupt, teardown,
\* transport close and transport error
C34_SpeakingIffLiveSources == isAiSpeaking <=> sources # {}

\* C35: each live display value equals its pending buffer: after every
\* handled event and after disconnect liveInput is the user's pending buffer
\* and liveOutput is the agent's
C35_LiveDisplayIsPendingBuffer ==
    /\ liveInput = currentTurnInput
    /\ liveOutput = currentTurnOutput

\* the step receives a message
Receives == Len(received') = Len(received) + 1

\* the step ends the handling of a message whose audio had to be decoded
Resumes(h) == h \in inflight /\ inflight' = inflight \ {h}

\* C36: the parts of one inbound message are handled in the order user
\* fragment, agent fragment, turn-complete, tool calls, audio, interrupted:
\* an agent fragment that comes with turn-complete is committed in the same
\* step, after the user fragment of that message; a tool call is answered
\* before the audio is decoded; the interruption waits for the audio of its
\* own message, and the handling of a message that carries audio and
\* interrupted ends with that audio stopped and the live set empty.
C36_PartsHandledInOrder ==
    [][/\ Receives =>
            LET m == Last(received')
            IN /\ (~Blank(m.output) /\ m.turnComplete) =>
                      /\ currentTurnOutput' = Empty
                      /\ messages' # <<>>
                      /\ Last(messages') =
                             Turn("model",
                                  trim(IF m.input # Empty THEN m.output
                                       ELSE currentTurnOutput \o m.output))
               /\ (~Blank(m.input) /\ ~Blank(m.output) /\ m.turnComplete) =>
                      /\ Len(messages') >= 2
                      /\ messages'[Len(messages') - 1] =
                             Turn("user", trim(currentTurnInput \o m.input))
                      /\ currentTurnInput' = Empty
               /\ (m.calls # <<>> /\ session # 0) =>
                      /\ toolResponses' = Append(toolResponses, m.calls[1].id)
                      /\ currentSceneId' = m.calls[1].arg
               /\ (m.audio = Pcm(1) /\ m.interrupted /\ outputCtx) =>
                      /\ inflight' # inflight
                      /\ sources' = sources
                      /\ isAiSpeaking' = isAiSpeaking
       /\ \A h \in inflight :
             (Resumes(h) /\ h.interrupted) =>
                 /\ sources' = {}
                 /\ ~isAiSpeaking'
                 /\ nextStartTime' = 0]_vars

\* C36 witness: a message with both fragments, turn-complete, a tool call,
\* audio and interrupted has been handled to its end: both turns are
\* recorded, user first, the call is answered, and nothing is playing
C36_Witness ==
    /\ received # <<>>
    /\ Last(received).calls # <<>>
    /\ inflight = {}
    /\ messages = <<Turn("user", <<"a">>), Turn("model", <<"c">>)>>
    /\ toolResponses = <<"f1">>
    /\ schedule # <<>>
    /\ sources = {}
    /\ ~isAiSpeaking

\* C37: the text of a recorded turn is the trimmed content the pending
\* buffer held at the moment of the flush: clearing the buffer right after
\* the flush, or a fragment that arrives before the transcript update is
\* applied, never changes or empties it (in the version of part_003:788-1593
\* and in the later version, whose updates are applied at a render).
C37_TurnTextCapturedAtFlush ==
    /\ [][Receives =>
            LET m == Last(received')
            IN \A i \in Len(messages) + 1 .. Len(messages') :
                  /\ messages'[i].text # Empty
                  /\ messages'[i].text \in
                        IF messages'[i].role = "user"
                        THEN {trim(currentTurnInput \o m.input)}
                        ELSE {trim(currentTurnOutput), trim(m.output),
                              trim(currentTurnOutput \o m.output)}]_vars
    /\ [](/\ Len(later.messages) <= Len(later.flushed)
          /\ \A i \in DOMAIN later.messages :
                later.messages[i] = later.flushed[i])


\* handleDisconnect goes on after await geminiService.disconnect()
DisconnectGoesOn == disc.pc = "closing" /\ disc'.pc # "closing" /\ session' = 0

\* C38: at disconnect the scorer is invoked at most once, and only when the
\* transcript log is at least 50 characters long, with that log; for an empty
\* or shorter log it is not called and the 'session too short' scorecard
\* (total 80) is produced at once.
C38_ScorerOnlyForLongLog ==
    [][/\ scorerCalls' # scorerCalls =>
            /\ DisconnectGoesOn
            /\ LogLength(transcriptLog) >= MinReportLen
            /\ scorerCalls' = Append(scorerCalls, transcriptLog)
       /\ (DisconnectGoesOn /\ LogLength(transcriptLog) < MinReportLen) =>
            /\ scorerCalls' = scorerCalls
            /\ scoreData' = ShortScore
            /\ scoreData'.total = 80
            /\ showResult'
       /\ (DisconnectGoesOn /\ LogLength(transcriptLog) >= MinReportLen) =>
            /\ Len(scorerCalls') = Len(scorerCalls) + 1
            /\ scoreData' = scoreData]_vars

\* C38 witness: a session whose log was exactly 50 characters long went to the
\* scorer, and the next one, with a log of 49 characters, got the 'session
\* too short' scorecard without a second call
C38_Witness ==
    /\ Len(scorerCalls) = 1
    /\ LogLength(scorerCalls[1]) = MinReportLen
    /\ LogLength(transcriptLog) = MinReportLen - 1
    /\ scoreData = ShortScore
    /\ showResult
\* the pending text of a role as a turn, when there is any
PendingTurn(role, buf) ==
    IF buf # Empty THEN <<Turn(role, trim(buf))>> ELSE <<>>

\* the recorded turns of the session, then the pending user text, then the
\* pending agent text
SessionMessages ==
    messages \o PendingTurn("user", currentTurnInput)
             \o PendingTurn("model", currentTurnOutput)

\* handleDisconnect reaches its end
SessionCompleted == ~showResult /\ showResult'

\* C39: saved history is bounded and ordered: a completed session is put in
\* front of the saved list, which is cut to 20; its saved messages are its
\* recorded turns followed by the pending user text and then the pending
\* agent text; a session without messages is not saved, and nothing else
\* changes the list.
C39_SavedHistoryBoundedOrdered ==
    /\ [][SessionCompleted =>
            savedSessions' =
                IF SessionMessages = <<>> THEN savedSessions
                ELSE Take(<<[messages |-> SessionMessages,
                             score |-> scoreData']>> \o savedSessions,
                          MaxHistory)]_vars
    /\ [][~SessionCompleted => savedSessions' = savedSessions]_vars
    /\ [](Len(savedSessions) <= MaxHistory)

====
